---- MODULE Spec2Model ----
(***************************************************************************)
(* Marketplace stock reconciliation of muy_criollo_gestion: the bulk sync  *)
(* handler PUT /api/mercadolibre/stock (push and pull), the stock ledger   *)
(* and the operations that change product_variants.stock_quantity.         *)
(*                                                                         *)
(* Strings that the code inspects (sku, external_variant_id,               *)
(* seller_custom_field) are sequences of one-character strings, so that    *)
(* String(v.id) and localSku.includes(...) are computed, not assumed.      *)
(* A JavaScript null / undefined / '' of such a field is the empty         *)
(* sequence: the code only ever tests these fields for truthiness.         *)
(***************************************************************************)
EXTENDS Integers, Sequences, FiniteSets, TLC

(***************************************************************************)
(* Bounds of the model.                                                    *)
(***************************************************************************)
MaxQty == 2
MaxMovements == 3
MaxChanges == 1
MaxFailures == 1

Qty == 0..MaxQty

(***************************************************************************)
(* Values.                                                                 *)
(***************************************************************************)
NoStr == <<>>
NoId == ""
Variants == {"v1", "v2"}
Items == {"MLA1", "MLA2"}

P1 == <<"P", "1">>
P2 == <<"P", "2">>
QQ == <<"Q">>

Abs(n) == IF n < 0 THEN -n ELSE n

DigitChars == <<"0", "1", "2", "3", "4", "5", "6", "7", "8", "9">>

\* String(v.id) of a non-negative integer id: its decimal digits.
RECURSIVE StringOf(_)
StringOf(n) ==
    IF n < 10 THEN <<DigitChars[n + 1]>>
    ELSE StringOf(n \div 10) \o <<DigitChars[(n % 10) + 1]>>

\* s.includes(t)
Includes(s, t) ==
    \E k \in 0..(Len(s) - Len(t)) : SubSeq(s, k + 1, k + Len(t)) = t

\* Array.prototype.find, as the index of the first element that satisfies P
\* (0 when there is none).
FindIndex(seq, P(_)) ==
    IF \E k \in 1..Len(seq) : P(seq[k])
    THEN CHOOSE k \in 1..Len(seq) :
             P(seq[k]) /\ \A j \in 1..(k - 1) : ~P(seq[j])
    ELSE 0

VARIABLES
    product_variants,   \* table: id -> [sku, stock_quantity]
    platform_listings,  \* table: sequence of rows
    stock_movements,    \* table: sequence of rows, in insertion order
    remote,             \* the marketplace: item id -> item
    pc,                 \* position of the PUT handler
    direction,          \* PUT: body.direction
    listings,           \* PUT: the rows loaded at the start of the run
    idx,                \* PUT: position of the for loop in listings
    mlItemMap,          \* PUT (pull): the fetched items
    mlStock,            \* PUT (pull): the resolved remote quantity
    synced,             \* PUT: counter
    errors,             \* PUT: error list
    response,           \* the last response of PUT
    writes,             \* the writes the current run has issued
    movementsBefore,    \* PUT: number of stock_movements rows when it loaded
    lastRun,            \* how the last run went, as long as no stock_quantity
                        \* and nothing on the marketplace changed since
    prevRun,            \* PUT: lastRun and changed, as the current run found them
    changed,            \* what else changed since the run of lastRun: "sku"
    changes,            \* number of changes made outside a run so far
    failures,           \* number of store calls that returned an error so far
    requests,           \* the decrements under way: what each one has read
    fetches,            \* PUT (pull): the item ids asked of the marketplace
    sales               \* table: the rows of the marketplace's orders

vars == <<product_variants, platform_listings, stock_movements, remote,
          pc, direction, listings, idx, mlItemMap, mlStock, synced, errors,
          response, writes, movementsBefore, lastRun, prevRun, changed,
          changes, failures, requests, fetches, sales>>

dbVars == <<product_variants, platform_listings, stock_movements>>
putVars == <<pc, direction, listings, idx, mlItemMap, mlStock, synced, errors,
             response, writes, movementsBefore, prevRun, requests, fetches,
             sales>>


(***************************************************************************)
(* Rows.                                                                   *)
(***************************************************************************)
Variation(id, q, scf) ==
    [id |-> id, available_quantity |-> q, seller_custom_field |-> scf]

MLItem(q, vs) == [exists |-> TRUE, available_quantity |-> q, variations |-> vs]

NoItem == [exists |-> FALSE, available_quantity |-> 0, variations |-> <<>>]

PlatformListing(id, variant, ext, q) ==
    [id |-> id, product_variant_id |-> variant, platform |-> "mercadolibre",
     external_id |-> ext, external_variant_id |-> NoStr,
     stock_synced |-> q, last_sync_at |-> "before"]

\* The embedded product_variant of the select in PUT: null when the row
\* references no variant.
JoinVariant(v) ==
    IF v \in DOMAIN product_variants
    THEN [present |-> TRUE, id |-> v,
          stock_quantity |-> product_variants[v].stock_quantity,
          sku |-> product_variants[v].sku]
    ELSE [present |-> FALSE, id |-> v, stock_quantity |-> 0, sku |-> NoStr]

Joined(row) ==
    [id |-> row.id, external_id |-> row.external_id,
     external_variant_id |-> row.external_variant_id,
     stock_synced |-> row.stock_synced,
     product_variant |-> JoinVariant(row.product_variant_id)]

\* supabase.from('platform_listings').select(...).eq('platform', 'mercadolibre')
RECURSIVE SelectListings(_)
SelectListings(rows) ==
    IF rows = <<>> THEN <<>>
    ELSE (IF Head(rows).platform = "mercadolibre"
          THEN <<Joined(Head(rows))>> ELSE <<>>)
         \o SelectListings(Tail(rows))

\* supabase.from('platform_listings').update(...).eq('id', id)
UpdateListing(rows, id, f(_)) ==
    [k \in 1..Len(rows) |-> IF rows[k].id = id THEN f(rows[k]) ELSE rows[k]]

\* supabase.from('product_variants').update({stock_quantity: q}).eq('id', v)
UpdateVariantStock(tbl, v, q) ==
    [w \in DOMAIN tbl |->
        IF w = v THEN [tbl[w] EXCEPT !.stock_quantity = q] ELSE tbl[w]]

StockMovement(v, type, q, ref) ==
    [product_variant_id |-> v, movement_type |-> type, quantity |-> q,
     reference_type |-> ref]


(***************************************************************************)
(* The decisions of PUT, as functions of the loaded row and fetched item.  *)
(***************************************************************************)
\* if (!listing.product_variant || !listing.external_id) continue
Malformed(listing) ==
    \/ ~listing.product_variant.present
    \/ listing.external_id = NoId

\* push: if (localStock !== listing.stock_synced)
PushNeeded(listing) ==
    listing.product_variant.stock_quantity # listing.stock_synced

\* The endpoint of a push that knows items only.
PushEndpointItem(listing) ==
    [item |-> listing.external_id, variation |-> NoStr]

\* push: the endpoint written, chosen from external_variant_id alone.
PushEndpoint(listing) ==
    [item |-> listing.external_id, variation |-> listing.external_variant_id]

\* A lookup by id that falls back to the item-level quantity whenever the id
\* is not found.
ResolveByIdOrItem(listing, mlItem) ==
    LET k == FindIndex(mlItem.variations,
                 LAMBDA v : StringOf(v.id) = listing.external_variant_id)
    IN  IF k # 0
        THEN [outcome |-> "stock",
              mlStock |-> mlItem.variations[k].available_quantity,
              matchedVariationId |-> NoStr]
        ELSE [outcome |-> "stock", mlStock |-> mlItem.available_quantity,
              matchedVariationId |-> NoStr]

\* pull, external_variant_id set: look the variation up by String(v.id).
ResolveById(listing, mlItem) ==
    LET k == FindIndex(mlItem.variations,
                 LAMBDA v : StringOf(v.id) = listing.external_variant_id)
    IN  IF k # 0
        THEN [outcome |-> "stock",
              mlStock |-> mlItem.variations[k].available_quantity,
              matchedVariationId |-> NoStr]
        ELSE IF Len(mlItem.variations) = 0
        THEN [outcome |-> "stock", mlStock |-> mlItem.available_quantity,
              matchedVariationId |-> NoStr]
        ELSE [outcome |-> "skip", mlStock |-> 0, matchedVariationId |-> NoStr]

\* The two strategies in the other order: the substring match first.
MatchedVariationSubstringFirst(localSku, variations) ==
    IF localSku = NoStr THEN 0
    ELSE LET k == FindIndex(variations,
                      LAMBDA v : Includes(localSku, StringOf(v.id)))
         IN  IF k # 0 THEN k
             ELSE FindIndex(variations,
                      LAMBDA v : v.seller_custom_field = localSku)

\* pull, external_variant_id unset and the item has variations:
\* Estrategia 1 (seller_custom_field === localSku), then
\* Estrategia 2 (localSku.includes(String(v.id))).
MatchedVariation(localSku, variations) ==
    IF localSku = NoStr THEN 0
    ELSE LET k == FindIndex(variations,
                      LAMBDA v : v.seller_custom_field = localSku)
         IN  IF k # 0 THEN k
             ELSE FindIndex(variations,
                      LAMBDA v : Includes(localSku, StringOf(v.id)))

\* A recovery that falls back to the first variation when nothing matches.
SelfHealFirst(listing, mlItem) ==
    LET k == MatchedVariation(listing.product_variant.sku, mlItem.variations)
        m == IF k # 0 THEN k ELSE 1
    IN  [outcome |-> "stock",
         mlStock |-> mlItem.variations[m].available_quantity,
         matchedVariationId |-> StringOf(mlItem.variations[m].id)]

\* A recovery that uses the match for this run only.
SelfHealForgets(listing, mlItem) ==
    LET k == MatchedVariation(listing.product_variant.sku, mlItem.variations)
    IN  IF k # 0
        THEN [outcome |-> "stock",
              mlStock |-> mlItem.variations[k].available_quantity,
              matchedVariationId |-> NoStr]
        ELSE [outcome |-> "ambiguous", mlStock |-> 0,
              matchedVariationId |-> NoStr]

SelfHeal(listing, mlItem) ==
    LET k == MatchedVariation(listing.product_variant.sku, mlItem.variations)
    IN  IF k # 0
        THEN [outcome |-> "stock",
              mlStock |-> mlItem.variations[k].available_quantity,
              matchedVariationId |-> StringOf(mlItem.variations[k].id)]
        ELSE [outcome |-> "ambiguous", mlStock |-> 0,
              matchedVariationId |-> NoStr]

\* pull: lines 322-374 for one row.
PullResolve(listing, mlItem) ==
    IF listing.external_variant_id # NoStr
    THEN ResolveById(listing, mlItem)
    ELSE IF Len(mlItem.variations) > 0
    THEN SelfHeal(listing, mlItem)
    ELSE [outcome |-> "stock", mlStock |-> mlItem.available_quantity,
          matchedVariationId |-> NoStr]

\* A pull that reconciles whatever it resolved.
PullAlways(listing, q) == TRUE

\* pull: if (mlStock !== listing.product_variant.stock_quantity)
PullNeeded(listing, q) == q # listing.product_variant.stock_quantity

\* A ledger row with the direction of the movement inverted.
PullMovementInverted(listing, q) ==
    StockMovement(listing.product_variant.id,
        IF q > listing.product_variant.stock_quantity THEN "OUT" ELSE "IN",
        Abs(q - listing.product_variant.stock_quantity), "sync")

\* pull: the stock_movements row of a reconciliation.
PullMovement(listing, q) ==
    StockMovement(listing.product_variant.id,
        IF q > listing.product_variant.stock_quantity THEN "IN" ELSE "OUT",
        Abs(q - listing.product_variant.stock_quantity), "sync")

(***************************************************************************)
(* The marketplace.                                                        *)
(***************************************************************************)
HasVariation(item, evid) ==
    \E k \in 1..Len(item.variations) : StringOf(item.variations[k].id) = evid

\* PUT /items/{id} and PUT /items/{id}/variations/{vid} answer 404 for a
\* coordinate that does not exist; mlFetch throws on any answer that is not ok.
RemoteAccepts(ep) ==
    /\ ep.item \in Items
    /\ remote[ep.item].exists
    /\ ep.variation # NoStr => HasVariation(remote[ep.item], ep.variation)

RemoteWritten(ep, q) ==
    IF ep.variation = NoStr
    THEN [remote EXCEPT ![ep.item].available_quantity = q]
    ELSE [remote EXCEPT ![ep.item].variations =
            [k \in 1..Len(@) |->
                IF StringOf(@[k].id) = ep.variation
                THEN [@[k] EXCEPT !.available_quantity = q] ELSE @[k]]]

\* getItemsMulti: the items among ids that the marketplace has.
GetItemsMulti(ids) ==
    [i \in Items |-> IF i \in ids /\ remote[i].exists THEN remote[i] ELSE NoItem]

\* mlItemMap.get(id) is undefined
Absent(map, id) == id \notin Items \/ ~map[id].exists


(***************************************************************************)
(* Initial states: two units, each with one mercadolibre link as           *)
(* POST /stock or the import create it (no external_variant_id). MLA1 has  *)
(* two variations, MLA2 is a simple item.                                  *)
(***************************************************************************)
SkuChoices(v) == IF v = "v1" THEN {NoStr, P1, QQ} ELSE {P2}

InitRemote ==
    [i \in Items |->
        IF i = "MLA1"
        THEN MLItem(0, <<Variation(1, 1, NoStr), Variation(2, MaxQty, P1)>>)
        ELSE MLItem(1, <<>>)]

NoResponse == [status |-> 0, synced |-> 0, total |-> 0, errors |-> <<>>]

NoRun == [outcome |-> "none", direction |-> "push", reconciled |-> FALSE]

NoItems == [i \in Items |-> NoItem]

\* The requests that decrement a stock_quantity while others are under way.
Procs == {"a", "b"}

NoRequest == [pc |-> "idle", handler |-> "", variant |-> NoId, quantity |-> 0,
              stock_quantity |-> 0, order |-> NoId]

Init ==
    /\ \E k \in {P1, QQ}, q \in Qty :
           product_variants =
               [v \in Variants |->
                   IF v = "v1" THEN [sku |-> k, stock_quantity |-> q]
                   ELSE [sku |-> P2, stock_quantity |-> 0]]
    /\ \E e2 \in {"MLA1", "MLA2"} :
           platform_listings = <<PlatformListing(1, "v1", "MLA1", 1),
                                 PlatformListing(2, "v2", e2, 1)>>
    /\ stock_movements = <<>>
    /\ remote = InitRemote
    /\ pc = "idle"
    /\ direction = "push"
    /\ listings = <<>>
    /\ idx = 1
    /\ mlItemMap = NoItems
    /\ mlStock = 0
    /\ synced = 0
    /\ errors = <<>>
    /\ response = NoResponse
    /\ writes = {}
    /\ movementsBefore = 0
    /\ lastRun = NoRun
    /\ prevRun = [run |-> NoRun, changed |-> {}]
    /\ changed = {}
    /\ changes = 0
    /\ failures = 0
    /\ requests = [p \in Procs |-> NoRequest]
    /\ fetches = <<>>
    /\ sales = <<>>

(***************************************************************************)
(* PUT /api/mercadolibre/stock                                             *)
(***************************************************************************)
Write(kind, listing, q) == [kind |-> kind, listing |-> listing.id, qty |-> q]

ErrorEntry(listing, kind) ==
    [listing |-> listing.id, external_id |-> listing.external_id, kind |-> kind]

Threw(errs) == \E k \in 1..Len(errs) : errs[k].kind = "error"

\* The request arrives: tokens, then the load of the links.
PutStart(dir, tokens, listingsError) ==
    /\ pc = "idle"
    /\ prevRun' = [run |-> lastRun, changed |-> changed]
    /\ changed' = {}
    /\ direction' = dir
    /\ movementsBefore' = Len(stock_movements)
    /\ IF ~tokens
       THEN /\ response' = [NoResponse EXCEPT !.status = 401]
            /\ listings' = <<>>
            /\ pc' = "done"
       ELSE IF listingsError
       THEN /\ response' = [NoResponse EXCEPT !.status = 500]
            /\ listings' = <<>>
            /\ pc' = "done"
       ELSE /\ response' = NoResponse
            /\ listings' = SelectListings(platform_listings)
            /\ pc' = IF dir = "push" THEN "push" ELSE "fetch"
    /\ UNCHANGED <<dbVars, remote, idx, mlItemMap, mlStock, synced, errors,
                   writes, lastRun, changes, failures, requests, fetches,
                   sales>>

\* What no step of the loop changes.
RunFrame == UNCHANGED <<direction, movementsBefore, listings, lastRun, prevRun,
                        changed, changes, requests, fetches, sales>>

\* The same for a step whose store calls succeed.
PutFrame == RunFrame /\ UNCHANGED failures

\* listings.map(l => l.external_id), duplicates kept.
RECURSIVE AllItemIds(_)
AllItemIds(ls) ==
    IF ls = <<>> THEN <<>>
    ELSE <<Head(ls).external_id>> \o AllItemIds(Tail(ls))

\* Array.from(new Set(listings.map(l => l.external_id))): each id once, in
\* the order of its first occurrence.
RECURSIVE UniqueItemIds(_)
UniqueItemIds(ls) ==
    IF ls = <<>> THEN <<>>
    ELSE LET init == UniqueItemIds(SubSeq(ls, 1, Len(ls) - 1))
             id == ls[Len(ls)].external_id
         IN  IF \E k \in 1..Len(init) : init[k] = id THEN init
             ELSE Append(init, id)

\* pull: uniqueItemIds, getItemsMulti, mlItemMap; a throw here is caught by
\* the handler's outer try only.
PullFetch(ok) ==
    /\ pc = "fetch"
    /\ LET ids == UniqueItemIds(listings)
       IN  /\ fetches' = fetches \o ids
           /\ IF ok
              THEN /\ mlItemMap' =
                       GetItemsMulti({ids[k] : k \in 1..Len(ids)})
                   /\ pc' = "pull"
                   /\ UNCHANGED response
              ELSE /\ response' = [NoResponse EXCEPT !.status = 500]
                   /\ pc' = "done"
                   /\ UNCHANGED mlItemMap
    /\ UNCHANGED <<dbVars, remote, idx, mlStock, synced, errors, writes>>
    /\ UNCHANGED <<direction, movementsBefore, listings, lastRun, prevRun,
                   changed, changes, requests, failures, sales>>

Listing == listings[idx]

InLoop(p) == pc = p /\ idx <= Len(listings)

\* pull, one row: lines 317-374. The self-healing update of the link is the
\* only store call of this part.
PullResolveStep ==
    /\ InLoop("pull")
    /\ IF Malformed(Listing) \/ Absent(mlItemMap, Listing.external_id)
       THEN /\ idx' = idx + 1
            /\ UNCHANGED <<pc, mlStock, errors, writes, platform_listings>>
       ELSE LET r == PullResolve(Listing, mlItemMap[Listing.external_id])
            IN  CASE r.outcome = "skip" ->
                       /\ idx' = idx + 1
                       /\ UNCHANGED <<pc, mlStock, errors, writes,
                                      platform_listings>>
                  [] r.outcome = "ambiguous" ->
                       /\ errors' = Append(errors, ErrorEntry(Listing, "manual"))
                       /\ idx' = idx + 1
                       /\ UNCHANGED <<pc, mlStock, writes, platform_listings>>
                  [] r.outcome = "stock" ->
                       /\ mlStock' = r.mlStock
                       /\ pc' = "compare"
                       /\ IF r.matchedVariationId # NoStr
                          THEN /\ platform_listings' =
                                    UpdateListing(platform_listings, Listing.id,
                                        LAMBDA row : [row EXCEPT
                                            !.external_variant_id =
                                                r.matchedVariationId])
                               /\ writes' = writes \cup
                                      {Write("heal", Listing, 0)}
                          ELSE UNCHANGED <<platform_listings, writes>>
                       /\ UNCHANGED <<idx, errors>>
    /\ UNCHANGED <<product_variants, stock_movements, remote, synced,
                   mlItemMap, response>>
    /\ PutFrame

\* A pull that also sends the quantity it has just written back to the
\* item.
PullUpdateStockEcho ==
    /\ InLoop("compare")
    /\ IF PullNeeded(Listing, mlStock)
       THEN /\ product_variants' =
                UpdateVariantStock(product_variants,
                                   Listing.product_variant.id, mlStock)
            /\ remote' = RemoteWritten([item |-> Listing.external_id,
                                        variation |-> NoStr], mlStock)
            /\ writes' = writes \cup {Write("variant", Listing, mlStock),
                                      Write("remote_item", Listing, mlStock)}
            /\ pc' = "movement"
            /\ UNCHANGED idx
       ELSE /\ idx' = idx + 1
            /\ pc' = "pull"
            /\ UNCHANGED <<product_variants, writes, remote>>
    /\ UNCHANGED <<platform_listings, stock_movements, mlStock,
                   synced, errors, mlItemMap, response>>
    /\ PutFrame

\* pull: the comparison and the update of product_variants.
PullUpdateStock ==
    /\ InLoop("compare")
    /\ IF PullNeeded(Listing, mlStock)
       THEN /\ product_variants' =
                UpdateVariantStock(product_variants,
                                   Listing.product_variant.id, mlStock)
            /\ writes' = writes \cup {Write("variant", Listing, mlStock)}
            /\ pc' = "movement"
            /\ UNCHANGED idx
       ELSE /\ idx' = idx + 1
            /\ pc' = "pull"
            /\ UNCHANGED <<product_variants, writes>>
    /\ UNCHANGED <<platform_listings, stock_movements, remote, mlStock,
                   synced, errors, mlItemMap, response>>
    /\ PutFrame

\* pull: the insert into stock_movements.
PullInsertMovement ==
    /\ InLoop("movement")
    /\ stock_movements' = Append(stock_movements, PullMovement(Listing, mlStock))
    /\ writes' = writes \cup {Write("movement", Listing, mlStock)}
    /\ pc' = "listing"
    /\ UNCHANGED <<product_variants, platform_listings, remote, idx, mlStock,
                   synced, errors, mlItemMap, response>>
    /\ PutFrame

\* An update of the link that refreshes the timestamp only.
SyncedRowStamp(row, q) == [row EXCEPT !.last_sync_at = "now"]

\* last_sync_at is kept relative to the request that is running: "now" is
\* new Date() of this request, "before" any earlier instant.
SyncedRow(row, q) == [row EXCEPT !.stock_synced = q, !.last_sync_at = "now"]

Aged(rows) == [k \in 1..Len(rows) |-> [rows[k] EXCEPT !.last_sync_at = "before"]]

\* pull: the update of the link, then synced++.
PullUpdateListing ==
    /\ InLoop("listing")
    /\ platform_listings' =
           UpdateListing(platform_listings, Listing.id,
                         LAMBDA row : SyncedRow(row, mlStock))
    /\ writes' = writes \cup {Write("listing", Listing, mlStock)}
    /\ synced' = synced + 1
    /\ idx' = idx + 1
    /\ pc' = "pull"
    /\ UNCHANGED <<product_variants, stock_movements, remote, mlStock, errors,
                   mlItemMap, response>>
    /\ PutFrame

\* push, one row: lines 258-289. The remote write throws when the
\* marketplace refuses it or cannot be reached.
PushStep(ok) ==
    /\ InLoop("push")
    /\ LET localStock == Listing.product_variant.stock_quantity
           ep == PushEndpoint(Listing)
       IN  IF Malformed(Listing) \/ ~PushNeeded(Listing)
           THEN /\ idx' = idx + 1
                /\ UNCHANGED <<pc, remote, errors, writes>>
           ELSE IF ok /\ RemoteAccepts(ep)
           THEN /\ remote' = RemoteWritten(ep, localStock)
                /\ writes' = writes \cup
                       {Write(IF ep.variation = NoStr THEN "remote_item"
                              ELSE "remote_variation", Listing, localStock)}
                /\ pc' = "pushListing"
                /\ UNCHANGED <<idx, errors>>
           ELSE /\ errors' = Append(errors, ErrorEntry(Listing, "error"))
                /\ idx' = idx + 1
                /\ UNCHANGED <<pc, remote, writes>>
    /\ UNCHANGED <<dbVars, mlStock, synced, mlItemMap, response>>
    /\ PutFrame

\* push: the update of the link, then synced++.
PushUpdateListing ==
    /\ InLoop("pushListing")
    /\ platform_listings' =
           UpdateListing(platform_listings, Listing.id,
               LAMBDA row : SyncedRow(row, Listing.product_variant.stock_quantity))
    /\ writes' = writes \cup
           {Write("listing", Listing, Listing.product_variant.stock_quantity)}
    /\ synced' = synced + 1
    /\ idx' = idx + 1
    /\ pc' = "push"
    /\ UNCHANGED <<product_variants, stock_movements, remote, mlStock, errors,
                   mlItemMap, response>>
    /\ PutFrame

\* The response: { success, synced, total, direction, errors }.
PutReturn ==
    /\ pc \in {"push", "pull"}
    /\ idx > Len(listings)
    /\ response' = [status |-> 200, synced |-> synced,
                    total |-> Len(listings), errors |-> errors]
    /\ pc' = "done"
    /\ UNCHANGED <<dbVars, remote, idx, mlItemMap, mlStock, synced, errors,
                   writes>>
    /\ PutFrame

\* A run that answered with a report: did a remote call of it throw?
RunOutcome == IF Threw(errors) THEN "report" ELSE "clean"

\* The handler has returned: its locals are gone. keep: whether the outcome
\* of the run is remembered, to compare the next run with it.
PutEnd(keep) ==
    /\ pc = "done"
    /\ pc' = "idle"
    /\ lastRun' = IF keep /\ response.status = 200
                  THEN [outcome |-> RunOutcome, direction |-> direction,
                        reconciled |-> response.synced > 0]
                  ELSE NoRun
    /\ listings' = <<>>
    /\ idx' = 1
    /\ mlItemMap' = NoItems
    /\ mlStock' = 0
    /\ synced' = 0
    /\ errors' = <<>>
    /\ response' = NoResponse
    /\ writes' = {}
    /\ movementsBefore' = 0
    /\ prevRun' = [run |-> NoRun, changed |-> {}]
    /\ direction' = "push"
    /\ platform_listings' = Aged(platform_listings)
    /\ changed' = {}
    /\ fetches' = <<>>
    /\ UNCHANGED <<product_variants, stock_movements, remote, changes, failures,
                   requests, sales>>

\* A quantity changed outside a run: the next run does not follow the last
\* one immediately any more.
QuantityChanged == lastRun' = NoRun /\ changed' = {}

\* Something else changed outside a run.
OtherChanged(what) ==
    /\ lastRun' = lastRun
    /\ changed' = IF lastRun = NoRun THEN changed ELSE changed \cup what

(***************************************************************************)
(* The marketplace changes an item on its side: a quantity, the set of     *)
(* variations, or the item itself.                                         *)
(***************************************************************************)
RemoveAt(seq, k) == SubSeq(seq, 1, k - 1) \o SubSeq(seq, k + 1, Len(seq))

\* One unit sold or restocked on the marketplace side.
Nearby(q) == {q - 1, q + 1} \cap Qty

RemoteAlternatives(item) ==
    IF ~item.exists THEN {}
    ELSE {[item EXCEPT !.available_quantity = q] :
                   q \in Nearby(item.available_quantity)}
         \cup UNION {{[item EXCEPT !.variations[k].available_quantity = q] :
                          q \in Nearby(item.variations[k].available_quantity)} :
                      k \in 1..Len(item.variations)}
         \cup {[item EXCEPT !.variations = RemoveAt(@, k)] :
                   k \in 1..Len(item.variations)}
         \cup {[item EXCEPT !.variations = <<>>], NoItem}

MarketplaceChange(i, new) ==
    /\ changes < MaxChanges
    /\ new \in RemoteAlternatives(remote[i])
    /\ new # remote[i]
    /\ remote' = [remote EXCEPT ![i] = new]
    /\ changes' = changes + 1
    /\ QuantityChanged
    /\ UNCHANGED <<dbVars, putVars, failures>>

(***************************************************************************)
(* Product modal, handleSubmit -> updateVariant(id, {sku, stock_quantity}) *)
(* product_variants.sku is UNIQUE: the update of a duplicate is refused    *)
(* and updateVariant throws.                                               *)
(***************************************************************************)
SkuTaken(v, sku) ==
    /\ sku # NoStr
    /\ \E w \in DOMAIN product_variants \ {v} : product_variants[w].sku = sku

updateVariant(v, sku, q) ==
    /\ changes < MaxChanges
    /\ v \in DOMAIN product_variants
    /\ ~SkuTaken(v, sku)
    /\ [sku |-> sku, stock_quantity |-> q] # product_variants[v]
    /\ product_variants' =
           [product_variants EXCEPT ![v] = [sku |-> sku, stock_quantity |-> q]]
    /\ changes' = changes + 1
    /\ IF q # product_variants[v].stock_quantity
       THEN QuantityChanged ELSE OtherChanged({"sku"})
    /\ UNCHANGED <<platform_listings, stock_movements, remote, putVars, failures>>

(***************************************************************************)
(* The operations of the merchant and of the order webhook that change a   *)
(* stock_quantity with a ledger row. None of them checks the sign of the   *)
(* result.                                                                 *)
(***************************************************************************)
Amounts == 1..MaxQty

InRange(q) == q \in (0 - MaxQty)..MaxQty

\* api.ts updateStock(variantId, quantity, type)
updateStock(v, quantity, type) ==
    /\ changes < MaxChanges
    /\ Len(stock_movements) < MaxMovements
    /\ v \in DOMAIN product_variants
    /\ LET old == product_variants[v].stock_quantity
           newQuantity == CASE type = "ADJUSTMENT" -> quantity
                            [] type = "IN" -> old + quantity
                            [] type = "OUT" -> old - quantity
       IN  /\ InRange(newQuantity)
           /\ product_variants' = UpdateVariantStock(product_variants, v, newQuantity)
           /\ stock_movements' = Append(stock_movements,
                  StockMovement(v, type,
                      IF type = "OUT" THEN 0 - quantity ELSE quantity,
                      "adjustment"))
           /\ IF newQuantity # old THEN QuantityChanged ELSE OtherChanged({})
    /\ changes' = changes + 1
    /\ UNCHANGED <<platform_listings, remote, putVars, failures>>

\* The decrement of a sold item: read the quantity, write quantity - q,
\* insert the OUT row with -q.
SaleDecrement(v, q) ==
    /\ changes < MaxChanges
    /\ Len(stock_movements) < MaxMovements
    /\ v \in DOMAIN product_variants
    /\ InRange(product_variants[v].stock_quantity - q)
    /\ product_variants' =
           UpdateVariantStock(product_variants, v,
                              product_variants[v].stock_quantity - q)
    /\ stock_movements' = Append(stock_movements,
                                 StockMovement(v, "OUT", 0 - q, "sale"))
    /\ QuantityChanged
    /\ changes' = changes + 1
    /\ UNCHANGED <<platform_listings, remote, putVars, failures>>

\* api.ts createSale, one item of the sale.
createSale(v, q) == SaleDecrement(v, q)

\* The webhook's updateLocalStock(supabase, variantId, quantity, ...).
updateLocalStock(v, q) == SaleDecrement(v, q)

(***************************************************************************)
(* Store calls that return an error. supabase-js does not throw: a call    *)
(* resolves to { error }, and a handler that does not look at it goes on   *)
(* as if the write had been applied.                                       *)
(***************************************************************************)
StoreFails ==
    /\ failures < MaxFailures
    /\ failures' = failures + 1

\* pull: the self-healing update of the link returns an error (356-361).
PullHealFailed ==
    /\ InLoop("pull")
    /\ ~Malformed(Listing)
    /\ ~Absent(mlItemMap, Listing.external_id)
    /\ LET r == PullResolve(Listing, mlItemMap[Listing.external_id])
       IN  /\ r.outcome = "stock"
           /\ r.matchedVariationId # NoStr
           /\ mlStock' = r.mlStock
    /\ StoreFails
    /\ pc' = "compare"
    /\ UNCHANGED <<dbVars, remote, idx, synced, errors, writes, mlItemMap,
                   response>>
    /\ RunFrame

\* pull: the update of product_variants returns an error (379-382).
PullUpdateStockFailed ==
    /\ InLoop("compare")
    /\ PullNeeded(Listing, mlStock)
    /\ StoreFails
    /\ pc' = "movement"
    /\ UNCHANGED <<dbVars, remote, idx, mlStock, synced, errors, writes,
                   mlItemMap, response>>
    /\ RunFrame

\* pull: the insert into stock_movements returns an error (385-393).
PullInsertMovementFailed ==
    /\ InLoop("movement")
    /\ StoreFails
    /\ pc' = "listing"
    /\ UNCHANGED <<dbVars, remote, idx, mlStock, synced, errors, writes,
                   mlItemMap, response>>
    /\ RunFrame

\* pull: the update of the link returns an error (396-402); synced++ follows.
PullUpdateListingFailed ==
    /\ InLoop("listing")
    /\ StoreFails
    /\ synced' = synced + 1
    /\ idx' = idx + 1
    /\ pc' = "pull"
    /\ UNCHANGED <<dbVars, remote, mlStock, errors, writes, mlItemMap, response>>
    /\ RunFrame

\* push: the update of the link returns an error (292-298); synced++ follows.
PushUpdateListingFailed ==
    /\ InLoop("pushListing")
    /\ StoreFails
    /\ synced' = synced + 1
    /\ idx' = idx + 1
    /\ pc' = "push"
    /\ UNCHANGED <<dbVars, remote, mlStock, errors, writes, mlItemMap, response>>
    /\ RunFrame

\* api.ts updateStock: updateError is thrown before anything is written
\* (at = "update"); movementError is thrown after the quantity was written
\* (at = "insert").
updateStockFailed(v, quantity, type, at) ==
    /\ changes < MaxChanges
    /\ v \in DOMAIN product_variants
    /\ StoreFails
    /\ LET old == product_variants[v].stock_quantity
           newQuantity == CASE type = "ADJUSTMENT" -> quantity
                            [] type = "IN" -> old + quantity
                            [] type = "OUT" -> old - quantity
       IN  /\ InRange(newQuantity)
           /\ IF at = "insert"
              THEN /\ product_variants' =
                          UpdateVariantStock(product_variants, v, newQuantity)
                   /\ IF newQuantity # old THEN QuantityChanged
                                           ELSE OtherChanged({})
              ELSE /\ UNCHANGED product_variants
                   /\ OtherChanged({})
    /\ changes' = changes + 1
    /\ UNCHANGED <<platform_listings, stock_movements, remote, putVars>>

\* The decrement of a sold item when one of its two unchecked store writes
\* returns an error: the other one is applied all the same.
SaleDecrementFailed(v, q, at) ==
    /\ changes < MaxChanges
    /\ v \in DOMAIN product_variants
    /\ StoreFails
    /\ InRange(product_variants[v].stock_quantity - q)
    /\ IF at = "insert"
       THEN /\ product_variants' =
                   UpdateVariantStock(product_variants, v,
                                      product_variants[v].stock_quantity - q)
            /\ QuantityChanged
            /\ UNCHANGED stock_movements
       ELSE /\ Len(stock_movements) < MaxMovements
            /\ stock_movements' = Append(stock_movements,
                                         StockMovement(v, "OUT", 0 - q, "sale"))
            /\ OtherChanged({})
            /\ UNCHANGED product_variants
    /\ changes' = changes + 1
    /\ UNCHANGED <<platform_listings, remote, putVars>>

\* The webhook's updateLocalStock with a store error.
updateLocalStockFailed(v, q, at) == SaleDecrementFailed(v, q, at)

(***************************************************************************)
(* Links and units come and go: POST /api/mercadolibre/stock links one     *)
(* unit, POST /api/mercadolibre/import creates a product with its units    *)
(* and links, deleteVariant and deleteProduct remove units.                *)
(***************************************************************************)
MaxLinkOps == 2

\* The units an import creates, in the order of the item's variations (the
\* single unit of a simple item comes first).
ImportedVariants(i) == IF i = "MLA1" THEN <<"v3", "v4">> ELSE <<"v5">>

AllVariants == Variants \cup {"v3", "v4", "v5"}

\* product_variants.product_id
ProductOf(v) ==
    CASE v = "v1" -> "p1"
      [] v = "v2" -> "p2"
      [] v \in {"v3", "v4"} -> "MLA1"
      [] OTHER -> "MLA2"

\* A product is in the store as long as one of its units is.
Products == {ProductOf(v) : v \in DOMAIN product_variants}

ItemChars(i) ==
    IF i = "MLA1" THEN <<"M", "L", "A", "1">> ELSE <<"M", "L", "A", "2">>

\* sku: mlItem.seller_sku || `ML-${mlItem.id}`; the item has no seller_sku.
ProductSku(i) == <<"M", "L", "-">> \o ItemChars(i)

\* sku: variation.seller_custom_field || `${product.sku}-${variation.id}`
VariantSku(i, variation) ==
    IF variation.seller_custom_field # NoStr
    THEN variation.seller_custom_field
    ELSE ProductSku(i) \o <<"-">> \o StringOf(variation.id)

\* The ids the store gives to the rows one request inserts.
NewListingId(k) == 2 + 2 * changes + k

\* .upsert(row, { onConflict: 'product_variant_id,platform' }) when the
\* statement is run as a plain insert.
UpsertAsInsert(rows, row, unique) == Append(rows, row)

\* .upsert(row, { onConflict: 'product_variant_id,platform' }). The CREATE
\* TABLE of platform_listings declares no unique index on the two columns:
\* a store built from it refuses the statement, and the handler only logs
\* the error (unique = FALSE). A store that has the index updates the row in
\* conflict with the columns of the payload, or inserts (unique = TRUE).
Upsert(rows, row, unique) ==
    IF ~unique THEN rows
    ELSE IF \E k \in 1..Len(rows) :
                /\ rows[k].product_variant_id = row.product_variant_id
                /\ rows[k].platform = row.platform
    THEN [k \in 1..Len(rows) |->
            IF /\ rows[k].product_variant_id = row.product_variant_id
               /\ rows[k].platform = row.platform
            THEN [rows[k] EXCEPT !.external_id = row.external_id,
                                 !.stock_synced = row.stock_synced,
                                 !.last_sync_at = row.last_sync_at]
            ELSE rows[k]]
    ELSE Append(rows, row)

\* POST /api/mercadolibre/stock, a request that gets past its early returns
\* (tokens, the unit exists, the marketplace accepts the item-level write).
\* Such a request answers success: true. The body's ml_variation_id is read
\* and never used: the remote write is item-level and the row carries no
\* external_variant_id. When the request ends its stamp is in the past for
\* whatever comes next.
POST(variant_id, ml_item_id, ml_variation_id, unique) ==
    /\ changes < MaxLinkOps
    /\ variant_id \in DOMAIN product_variants
    /\ LET stock == product_variants[variant_id].stock_quantity
           ep == [item |-> ml_item_id, variation |-> NoStr]
           row == [PlatformListing(NewListingId(1), variant_id, ml_item_id, stock)
                       EXCEPT !.last_sync_at = "now"]
       IN  /\ RemoteAccepts(ep)
           /\ remote' = RemoteWritten(ep, stock)
           /\ platform_listings' = Aged(Upsert(platform_listings, row, unique))
    /\ changes' = changes + 1
    /\ QuantityChanged
    /\ UNCHANGED <<product_variants, stock_movements, putVars, failures>>

\* The ml_variation_id of a request body: none, or the id of a variation.
VariationIds == {NoStr, StringOf(1), StringOf(2)}

\* .select('product_variant_id').eq('external_id', id).eq('platform', ..)
\* .single(): data only when exactly one row matches.
ExistingListing(i) ==
    Cardinality({k \in 1..Len(platform_listings) :
                    /\ platform_listings[k].external_id = i
                    /\ platform_listings[k].platform = "mercadolibre"}) = 1

\* The variations of the item whose unit the import inserts: the insert of
\* a sku that is taken returns an error and the loop continues.
ImportCreates(i) ==
    LET vs == remote[i].variations
    IN  {k \in 1..Len(vs) :
            /\ \A w \in DOMAIN product_variants :
                   product_variants[w].sku # VariantSku(i, vs[k])
            /\ \A j \in 1..(k - 1) : VariantSku(i, vs[j]) # VariantSku(i, vs[k])}

\* The links the import inserts for the variations 1..k, in order.
RECURSIVE ImportedLinks(_, _)
ImportedLinks(i, k) ==
    IF k = 0 THEN <<>>
    ELSE ImportedLinks(i, k - 1) \o
         (IF k \in ImportCreates(i)
          THEN <<PlatformListing(NewListingId(k), ImportedVariants(i)[k], i,
                                 remote[i].variations[k].available_quantity)>>
          ELSE <<>>)

\* POST /api/mercadolibre/import, a request that gets past its early
\* returns (tokens, no single link to the item yet, the item can be read,
\* the product's sku is free).
ImportPOST(ml_item_id) ==
    /\ changes < MaxLinkOps
    /\ ~ExistingListing(ml_item_id)
    /\ remote[ml_item_id].exists
    /\ ml_item_id \notin Products
    /\ LET mlItem == remote[ml_item_id]
           vs == mlItem.variations
           new == ImportedVariants(ml_item_id)
       IN  IF Len(vs) > 0
           THEN /\ product_variants' =
                       [v \in DOMAIN product_variants \cup
                              {new[k] : k \in ImportCreates(ml_item_id)} |->
                           IF v \in DOMAIN product_variants
                           THEN product_variants[v]
                           ELSE LET k == CHOOSE k \in 1..Len(vs) : new[k] = v
                                IN  [sku |-> VariantSku(ml_item_id, vs[k]),
                                     stock_quantity |-> vs[k].available_quantity]]
                /\ platform_listings' =
                       platform_listings \o ImportedLinks(ml_item_id, Len(vs))
           ELSE IF \E w \in DOMAIN product_variants :
                       product_variants[w].sku = ProductSku(ml_item_id)
           THEN UNCHANGED <<product_variants, platform_listings>>
           ELSE /\ product_variants' =
                       [v \in DOMAIN product_variants \cup {new[1]} |->
                           IF v \in DOMAIN product_variants
                           THEN product_variants[v]
                           ELSE [sku |-> ProductSku(ml_item_id),
                                 stock_quantity |-> mlItem.available_quantity]]
                /\ platform_listings' =
                       Append(platform_listings,
                              PlatformListing(NewListingId(1), new[1], ml_item_id,
                                              mlItem.available_quantity))
    /\ changes' = changes + 1
    /\ QuantityChanged
    /\ UNCHANGED <<stock_movements, remote, putVars, failures>>

\* The rows that are left when the units of gone go: platform_listings and
\* stock_movements reference product_variants ON DELETE CASCADE.
Cascade(rows, gone) ==
    SelectSeq(rows, LAMBDA row : row.product_variant_id \notin gone)

DeleteUnits(gone) ==
    /\ changes < MaxLinkOps
    /\ gone # {}
    /\ product_variants' =
           [v \in DOMAIN product_variants \ gone |-> product_variants[v]]
    /\ platform_listings' = Cascade(platform_listings, gone)
    /\ stock_movements' = Cascade(stock_movements, gone)
    /\ changes' = changes + 1
    /\ QuantityChanged
    /\ UNCHANGED <<remote, putVars, failures>>

\* api.ts deleteVariant(id)
deleteVariant(id) == DeleteUnits({id} \cap DOMAIN product_variants)

\* api.ts deleteProduct(id): product_variants references products
\* ON DELETE CASCADE.
deleteProduct(id) ==
    DeleteUnits({v \in DOMAIN product_variants : ProductOf(v) = id})

(***************************************************************************)
(* Requests that overlap. createSale and updateLocalStock decrement in     *)
(* three store calls (select, update, insert) with nothing that holds the  *)
(* row between them; each request of Procs makes one decrement, and its    *)
(* calls interleave with those of the other request and of a sync run.     *)
(***************************************************************************)
Handlers == {"createSale", "updateLocalStock"}

\* One request comes from the order webhook, the other one from the webhook
\* or from the sale form.
HandlersOf(p) == IF p = "a" THEN {"updateLocalStock"} ELSE Handlers

\* .from('product_variants').select('stock_quantity').eq('id', ..).single()
DecrementRead(p, handler, v, q) ==
    /\ requests[p].pc = "idle"
    /\ v \in DOMAIN product_variants
    /\ requests' = [requests EXCEPT ![p] =
           [pc |-> "update", handler |-> handler, variant |-> v, quantity |-> q,
            stock_quantity |-> product_variants[v].stock_quantity,
            order |-> NoId]]
    /\ UNCHANGED <<dbVars, remote, pc, direction, listings, idx, mlItemMap,
                   mlStock, synced, errors, response, writes, movementsBefore,
                   lastRun, prevRun, changed, changes, failures, fetches,
                   sales>>

\* .update({ stock_quantity: variant.stock_quantity - quantity })
DecrementUpdate(p) ==
    /\ requests[p].pc = "update"
    /\ InRange(requests[p].stock_quantity - requests[p].quantity)
    /\ product_variants' =
           UpdateVariantStock(product_variants, requests[p].variant,
                              requests[p].stock_quantity - requests[p].quantity)
    /\ requests' = [requests EXCEPT ![p].pc = "insert"]
    /\ QuantityChanged
    /\ UNCHANGED <<platform_listings, stock_movements, remote, pc, direction,
                   listings, idx, mlItemMap, mlStock, synced, errors, response,
                   writes, movementsBefore, prevRun, changes, failures, fetches,
                   sales>>

\* .from('stock_movements').insert({ movement_type: 'OUT', quantity: -q, .. })
DecrementInsert(p) ==
    /\ requests[p].pc = "insert"
    /\ Len(stock_movements) < MaxMovements
    /\ stock_movements' =
           Append(stock_movements,
                  StockMovement(requests[p].variant, "OUT",
                                0 - requests[p].quantity, "sale"))
    /\ requests' = [requests EXCEPT ![p].pc = "done"]
    /\ UNCHANGED <<product_variants, platform_listings, remote, pc, direction,
                   listings, idx, mlItemMap, mlStock, synced, errors, response,
                   writes, movementsBefore, lastRun, prevRun, changed, changes,
                   failures, fetches, sales>>

(***************************************************************************)
(* Orders of the marketplace. The webhook (POST of the notifications       *)
(* route) imports one paid order and decrements the stock of its item; the *)
(* bulk sync (POST /api/mercadolibre/orders) imports the paid orders and   *)
(* touches no stock. Each request of Procs handles one notification.       *)
(***************************************************************************)
Orders == {"o1", "o2"}

\* getOrder: a paid order with one item; variation_id 0 stands for none.
MLOrder(o) ==
    IF o = "o1"
    THEN [item |-> "MLA1", variation_id |-> 1, quantity |-> 1]
    ELSE [item |-> "MLA1", variation_id |-> 2, quantity |-> 1]

\* saleNumber = `ML-${mlOrder.id}`
SaleNumber(o) == <<"ML", o>>

Sale(o) == [sale_number |-> SaleNumber(o), ml_order_id |-> o]

\* .from('sales').select('id').eq('ml_order_id', orderId).single(): data
\* only when exactly one row matches.
Existing(o) ==
    Cardinality({k \in 1..Len(sales) : sales[k].ml_order_id = o}) = 1

\* A store that accepts any sale_number.
SaleNumberFree(o) == FALSE

\* sales.sale_number is UNIQUE: the insert of a number that is taken returns
\* an error.
SaleNumberTaken(o) ==
    \E k \in 1..Len(sales) : sales[k].sale_number = SaleNumber(o)

\* The rows a lookup of platform_listings matches.
ListingsWhere(P(_)) ==
    {k \in 1..Len(platform_listings) :
        /\ platform_listings[k].platform = "mercadolibre"
        /\ P(platform_listings[k])}

\* .eq('platform', ..).eq('external_variant_id', String(variation_id))
\* .single(): the row when exactly one matches. The lookup does not filter
\* by external_id.
SpecificVariant(variation_id) ==
    LET rows == ListingsWhere(LAMBDA row :
                    row.external_variant_id = StringOf(variation_id))
    IN  IF Cardinality(rows) = 1
        THEN platform_listings[CHOOSE k \in rows : TRUE].product_variant_id
        ELSE NoId

\* .eq('platform', ..).eq('external_id', item.item.id).maybeSingle(): the
\* row when exactly one matches, null when none does, an error (and no
\* data) when several do.
GenericListing(item) ==
    LET rows == ListingsWhere(LAMBDA row : row.external_id = item)
    IN  IF Cardinality(rows) = 1
        THEN platform_listings[CHOOSE k \in rows : TRUE].product_variant_id
        ELSE NoId

\* The unit the webhook decrements for an order item (165-199).
DecrementTarget(item) ==
    IF item.variation_id # 0 /\ SpecificVariant(item.variation_id) # NoId
    THEN SpecificVariant(item.variation_id)
    ELSE GenericListing(item.item)

WebhookFrame ==
    UNCHANGED <<dbVars, remote, pc, direction, listings, idx, mlItemMap,
                mlStock, synced, errors, response, writes, movementsBefore,
                lastRun, prevRun, changed, changes, failures, fetches>>

\* The notification arrives: tokens, then the check for an existing sale
\* (98-108).
WebhookReceive(p, o) ==
    /\ requests[p].pc = "idle"
    /\ requests' = [requests EXCEPT ![p] =
           [NoRequest EXCEPT !.handler = "webhook", !.order = o,
                             !.pc = IF Existing(o) THEN "skipped" ELSE "sale"]]
    /\ UNCHANGED sales
    /\ WebhookFrame

\* getOrder, then the insert into sales (110-143).
WebhookInsertSale(p) ==
    /\ requests[p].pc = "sale"
    /\ IF SaleNumberTaken(requests[p].order)
       THEN /\ requests' = [requests EXCEPT ![p].pc = "refused"]
            /\ UNCHANGED sales
       ELSE /\ sales' = Append(sales, Sale(requests[p].order))
            /\ requests' = [requests EXCEPT ![p].pc = "item"]
    /\ WebhookFrame

\* The order item: the insert into sale_items, then the lookup of the link
\* (146-199).
WebhookItem(p) ==
    /\ requests[p].pc = "item"
    /\ LET item == MLOrder(requests[p].order)
           target == DecrementTarget(item)
       IN  requests' = [requests EXCEPT ![p] =
               [@ EXCEPT !.variant = target, !.quantity = item.quantity,
                         !.pc = IF target = NoId THEN "unlinked" ELSE "read"]]
    /\ UNCHANGED sales
    /\ WebhookFrame

\* updateLocalStock, 1: the select of stock_quantity (230-238).
WebhookRead(p) ==
    /\ requests[p].pc = "read"
    /\ IF requests[p].variant \in DOMAIN product_variants
       THEN requests' = [requests EXCEPT ![p] =
                [@ EXCEPT !.stock_quantity =
                              product_variants[requests[p].variant].stock_quantity,
                          !.pc = "update"]]
       ELSE requests' = [requests EXCEPT ![p].pc = "unlinked"]
    /\ UNCHANGED sales
    /\ WebhookFrame

\* POST /api/mercadolibre/orders for the paid orders the marketplace lists:
\* a sale for each one that has none, and no stock write (126-183).
RECURSIVE SalesAfter(_, _)
SalesAfter(rows, results) ==
    IF results = {} THEN rows
    ELSE LET o == CHOOSE x \in results : \A y \in results : x = "o1" \/ y # "o1"
             taken == \E k \in 1..Len(rows) : rows[k].sale_number = SaleNumber(o)
         IN  SalesAfter(IF taken THEN rows ELSE Append(rows, Sale(o)),
                        results \ {o})

OrdersPOST(results) ==
    /\ results # {}
    /\ sales' = SalesAfter(sales, results)
    /\ sales' # sales
    /\ UNCHANGED requests
    /\ WebhookFrame

(***************************************************************************)
(* The sync in isolation: one request at a time, the merchant and the      *)
(* marketplace act between runs. Store calls succeed; remote calls may     *)
(* throw.                                                                  *)
(***************************************************************************)
Step ==
    \/ \E dir \in {"push", "pull"}, tokens \in BOOLEAN, listingsError \in BOOLEAN :
           PutStart(dir, tokens, listingsError)
    \/ \E ok \in BOOLEAN : PullFetch(ok)
    \/ PullResolveStep
    \/ PullUpdateStock
    \/ PullInsertMovement
    \/ PullUpdateListing
    \/ \E ok \in BOOLEAN : PushStep(ok)
    \/ PushUpdateListing
    \/ PutReturn
    \/ pc = "idle" /\ \E i \in Items : \E new \in RemoteAlternatives(remote[i]) :
                          MarketplaceChange(i, new)
    \/ pc = "idle" /\ \E v \in Variants : \E sku \in SkuChoices(v), q \in Qty :
                          updateVariant(v, sku, q)

Next == Step \/ PutEnd(FALSE)

Spec == Init /\ [][Next]_vars

(***************************************************************************)
(* The same, remembering how the last reported run went, to compare a run  *)
(* with the one before it.                                                 *)
(***************************************************************************)
NextRuns == Step \/ PutEnd(TRUE)

SpecRuns == Init /\ [][NextRuns]_vars

(***************************************************************************)
(* The ledger: the sync together with every operation that changes a       *)
(* stock_quantity, from known initial quantities and an empty ledger.      *)
(***************************************************************************)
initial_quantity(v) == IF v = "v1" THEN 1 ELSE 0

InitLedger ==
    /\ Init
    /\ \A v \in Variants : product_variants[v].stock_quantity = initial_quantity(v)

NextLedger ==
    \/ Next
    \/ pc = "idle" /\ \E v \in Variants, q \in Qty,
                         type \in {"IN", "OUT", "ADJUSTMENT"} :
                          updateStock(v, q, type)
    \/ pc = "idle" /\ \E v \in Variants, q \in Amounts : createSale(v, q)
    \/ pc = "idle" /\ \E v \in Variants, q \in Amounts : updateLocalStock(v, q)

SpecLedger == InitLedger /\ [][NextLedger]_vars

(***************************************************************************)
(* Store errors: the sync, the webhook decrement and the manual stock      *)
(* update, each of whose store writes may return an error.                 *)
(***************************************************************************)
NextFail ==
    \/ \E dir \in {"push", "pull"}, tokens \in BOOLEAN, listingsError \in BOOLEAN :
           PutStart(dir, tokens, listingsError)
    \/ \E ok \in BOOLEAN : PullFetch(ok)
    \/ PullResolveStep
    \/ PullHealFailed
    \/ PullUpdateStock
    \/ PullUpdateStockFailed
    \/ PullInsertMovement
    \/ PullInsertMovementFailed
    \/ PullUpdateListing
    \/ PullUpdateListingFailed
    \/ \E ok \in BOOLEAN : PushStep(ok)
    \/ PushUpdateListing
    \/ PushUpdateListingFailed
    \/ PutReturn
    \/ PutEnd(FALSE)
    \/ pc = "idle" /\ \E i \in Items : \E new \in RemoteAlternatives(remote[i]) :
                          MarketplaceChange(i, new)
    \/ pc = "idle" /\ \E v \in Variants, q \in Amounts, type \in {"IN", "OUT"} :
                          updateStock(v, q, type)
    \/ pc = "idle" /\ \E v \in Variants, q \in Amounts, type \in {"IN", "OUT"},
                         at \in {"update", "insert"} :
                          updateStockFailed(v, q, type, at)
    \/ pc = "idle" /\ \E v \in Variants, q \in Amounts : updateLocalStock(v, q)
    \/ pc = "idle" /\ \E v \in Variants, q \in Amounts,
                         at \in {"update", "insert"} :
                          updateLocalStockFailed(v, q, at)

SpecFail == InitLedger /\ [][NextFail]_vars


(***************************************************************************)
(* Links: the sync together with the requests that create links and the    *)
(* deletions that remove units.                                            *)
(***************************************************************************)
NextLinks ==
    \/ \E dir \in {"push", "pull"}, tokens \in BOOLEAN, listingsError \in BOOLEAN :
           PutStart(dir, tokens, listingsError)
    \/ \E ok \in BOOLEAN : PullFetch(ok)
    \/ PullResolveStep
    \/ PullUpdateStock
    \/ PullInsertMovement
    \/ PullUpdateListing
    \/ \E ok \in BOOLEAN : PushStep(ok)
    \/ PushUpdateListing
    \/ PutReturn
    \/ PutEnd(FALSE)
    \/ pc = "idle" /\ \E v \in AllVariants, i \in Items,
                         ml_variation_id \in VariationIds, unique \in BOOLEAN :
                          POST(v, i, ml_variation_id, unique)
    \/ pc = "idle" /\ \E i \in Items : ImportPOST(i)
    \/ pc = "idle" /\ \E v \in AllVariants : deleteVariant(v)
    \/ pc = "idle" /\ \E p \in {"p1", "p2"} \cup Items : deleteProduct(p)

SpecLinks == Init /\ [][NextLinks]_vars

(***************************************************************************)
(* Overlap: pull runs and two decrements whose store calls interleave,     *)
(* from known initial quantities and an empty ledger.                      *)
(***************************************************************************)
NextConc ==
    \/ \E tokens \in BOOLEAN, listingsError \in BOOLEAN :
           PutStart("pull", tokens, listingsError)
    \/ \E ok \in BOOLEAN : PullFetch(ok)
    \/ PullResolveStep
    \/ PullUpdateStock
    \/ PullInsertMovement
    \/ PullUpdateListing
    \/ PutReturn
    \/ PutEnd(FALSE)
    \/ \E p \in Procs : \E handler \in HandlersOf(p), v \in Variants,
                               q \in Amounts :
           DecrementRead(p, handler, v, q)
    \/ \E p \in Procs : DecrementUpdate(p)
    \/ \E p \in Procs : DecrementInsert(p)

SpecConc == InitLedger /\ [][NextConc]_vars

(***************************************************************************)
(* Orders: pull runs, two notifications whose store calls interleave, and  *)
(* the bulk sync of the orders, from known initial quantities.             *)
(***************************************************************************)
NextOrders ==
    \/ \E tokens \in BOOLEAN, listingsError \in BOOLEAN :
           PutStart("pull", tokens, listingsError)
    \/ \E ok \in BOOLEAN : PullFetch(ok)
    \/ PullResolveStep
    \/ PullUpdateStock
    \/ PullInsertMovement
    \/ PullUpdateListing
    \/ PutReturn
    \/ PutEnd(FALSE)
    \/ pc = "idle" /\ \E p \in Procs, o \in Orders : WebhookReceive(p, o)
    \/ pc = "idle" /\ \E p \in Procs : WebhookInsertSale(p)
    \/ pc = "idle" /\ \E p \in Procs : WebhookItem(p)
    \/ pc = "idle" /\ \E p \in Procs : WebhookRead(p)
    \/ pc = "idle" /\ \E p \in Procs : DecrementUpdate(p)
    \/ pc = "idle" /\ \E p \in Procs : DecrementInsert(p)
    \/ pc = "idle" /\ \E results \in SUBSET Orders : OrdersPOST(results)

SpecOrders == InitLedger /\ [][NextOrders]_vars

(***************************************************************************)
(* Termination: the sync with every outcome of its remote and store calls. *)
(* The handler is one sequential async function: each await resolves or    *)
(* rejects and the statement after it runs, so a step of a request that    *)
(* is under way is eventually taken.                                       *)
(***************************************************************************)
RunStep ==
    \/ \E ok \in BOOLEAN : PullFetch(ok)
    \/ PullResolveStep
    \/ PullHealFailed
    \/ PullUpdateStock
    \/ PullUpdateStockFailed
    \/ PullInsertMovement
    \/ PullInsertMovementFailed
    \/ PullUpdateListing
    \/ PullUpdateListingFailed
    \/ \E ok \in BOOLEAN : PushStep(ok)
    \/ PushUpdateListing
    \/ PushUpdateListingFailed
    \/ PutReturn

NextTerm ==
    \/ \E dir \in {"push", "pull"}, tokens \in BOOLEAN, listingsError \in BOOLEAN :
           PutStart(dir, tokens, listingsError)
    \/ RunStep
    \/ PutEnd(FALSE)
    \/ pc = "idle" /\ \E i \in Items : \E new \in RemoteAlternatives(remote[i]) :
                          MarketplaceChange(i, new)

SpecTerm == Init /\ [][NextTerm]_vars /\ WF_vars(RunStep)

(***************************************************************************)
(* Import, then pull: the seller may have given a variation a              *)
(* seller_custom_field or none (the field is optional), the import creates *)
(* the units and links of an item, and pull runs follow.                   *)
(***************************************************************************)
MarketplaceField(i, k, field) ==
    /\ changes < MaxChanges
    /\ remote[i].exists
    /\ k \in 1..Len(remote[i].variations)
    /\ remote[i].variations[k].seller_custom_field # field
    /\ remote' = [remote EXCEPT ![i].variations[k].seller_custom_field = field]
    /\ changes' = changes + 1
    /\ QuantityChanged
    /\ UNCHANGED <<dbVars, putVars, failures>>

NextImport ==
    \/ \E tokens \in BOOLEAN, listingsError \in BOOLEAN :
           PutStart("pull", tokens, listingsError)
    \/ \E ok \in BOOLEAN : PullFetch(ok)
    \/ PullResolveStep
    \/ PullUpdateStock
    \/ PullInsertMovement
    \/ PullUpdateListing
    \/ PutReturn
    \/ PutEnd(FALSE)
    \/ pc = "idle" /\ \E i \in Items, k \in 1..2, field \in {NoStr, P1} :
                          MarketplaceField(i, k, field)
    \/ pc = "idle" /\ \E i \in Items : ImportPOST(i)

SpecImport == Init /\ [][NextImport]_vars

(***************************************************************************)
(* What the properties speak about.                                        *)
(***************************************************************************)
\* The stored link with the given id.
RowOf(id) ==
    platform_listings[CHOOSE k \in 1..Len(platform_listings) :
                          platform_listings[k].id = id]

\* The stock_movements rows of a unit inserted since the running request
\* loaded the links.
InsertedFor(v) ==
    {j \in (movementsBefore + 1)..Len(stock_movements) :
        stock_movements[j].product_variant_id = v}

\* The signed delta of a stock_movements row: IN adds, OUT removes, an
\* ADJUSTMENT carries its sign.
SignedDelta(m) ==
    CASE m.movement_type = "IN" -> Abs(m.quantity)
      [] m.movement_type = "OUT" -> 0 - Abs(m.quantity)
      [] OTHER -> m.quantity

\* The report has an entry of the given kind for the link.
Reported(l, kind) ==
    \E j \in 1..Len(response.errors) :
        response.errors[j].listing = l.id /\ response.errors[j].kind = kind

\* The running request has issued a write of one of the kinds for the link.
Wrote(l, kinds) == \E w \in writes : w.listing = l.id /\ w.kind \in kinds

QuantityWrites == {"variant", "movement", "listing", "remote_item",
                   "remote_variation"}

SkuMatches(sku, v) ==
    sku # NoStr /\ (v.seller_custom_field = sku \/ Includes(sku, StringOf(v.id)))

\* Variation id unset, the remote item has variations, no SKU match.
Ambiguous(l) ==
    /\ l.external_variant_id = NoStr
    /\ l.external_id \in Items
    /\ LET vs == remote[l.external_id].variations
       IN  /\ Len(vs) > 0
           /\ \A k \in 1..Len(vs) : ~SkuMatches(l.product_variant.sku, vs[k])

\* Variation id set but absent from a remote item that still has variations.
Stale(l) ==
    /\ l.external_variant_id # NoStr
    /\ l.external_id \in Items
    /\ Len(remote[l.external_id].variations) > 0
    /\ ~HasVariation(remote[l.external_id], l.external_variant_id)

Links == 1..Len(listings)

Reported200 == pc = "done" /\ response.status = 200

\* C3: no silent misattribution. For a link with no variation id whose remote
\* item has variations none of which matches the local SKU (a null SKU
\* included), a pull run leaves the unit's stock_quantity as it was, inserts
\* no stock_movements row for it, leaves the link's stock_synced as it was, and
\* its report carries the explanatory error of the link.
C3_NoSilentMisattribution ==
    (pc # "idle" /\ direction = "pull") =>
        \A k \in Links :
            LET l == listings[k]
                v == l.product_variant.id
            IN  Ambiguous(l) =>
                    /\ product_variants[v].stock_quantity =
                           l.product_variant.stock_quantity
                    /\ InsertedFor(v) = {}
                    /\ RowOf(l.id).stock_synced = l.stock_synced
                    /\ RowOf(l.id).last_sync_at = "before"
                    /\ ~Wrote(l, QuantityWrites \cup {"heal"})
                    /\ Reported200 => Reported(l, "manual")

\* A pull has reported about an ambiguous link while it reconciled another.
C3_Witness ==
    /\ Reported200
    /\ direction = "pull"
    /\ response.synced > 0
    /\ \E k \in Links : Ambiguous(listings[k]) /\ Reported(listings[k], "manual")

\* What a pull resolves for a loaded link, from the item the marketplace has.
Resolved(l) ==
    IF l.external_id \in Items /\ remote[l.external_id].exists
    THEN PullResolve(l, remote[l.external_id])
    ELSE [outcome |-> "skip", mlStock |-> 0, matchedVariationId |-> NoStr]

\* The links a pull has to reconcile: resolved, R # L.
ToReconcile ==
    {k \in Links : /\ Resolved(listings[k]).outcome = "stock"
                   /\ Resolved(listings[k]).mlStock #
                          listings[k].product_variant.stock_quantity}

\* C5: pull direction correctness. For a resolved unit with local quantity L
\* and resolved remote quantity R # L, a pull sets stock_quantity to R, then
\* inserts exactly one stock_movements row of the unit, of reference type sync
\* and signed delta R - L, then sets the link's stock_synced to R and refreshes
\* last_sync_at; the report counts each such unit once.
C5_PullCorrect ==
    (pc # "idle" /\ direction = "pull") =>
        /\ \A k \in ToReconcile :
               LET l == listings[k]
                   v == l.product_variant.id
                   L == l.product_variant.stock_quantity
                   R == Resolved(l).mlStock
                   done == k < idx \/ Reported200
                   rowsOk == /\ Cardinality(InsertedFor(v)) = 1
                             /\ \A j \in InsertedFor(v) :
                                    /\ SignedDelta(stock_movements[j]) = R - L
                                    /\ stock_movements[j].reference_type = "sync"
                   linkOld == /\ RowOf(l.id).stock_synced = l.stock_synced
                              /\ RowOf(l.id).last_sync_at = "before"
               IN  /\ done => /\ product_variants[v].stock_quantity = R
                              /\ rowsOk
                              /\ RowOf(l.id).stock_synced = R
                              /\ RowOf(l.id).last_sync_at = "now"
                   /\ (k = idx /\ pc = "movement") =>
                          /\ product_variants[v].stock_quantity = R
                          /\ InsertedFor(v) = {}
                          /\ linkOld
                   /\ (k = idx /\ pc = "listing") =>
                          /\ product_variants[v].stock_quantity = R
                          /\ rowsOk
                          /\ linkOld
        /\ Reported200 => response.synced = Cardinality(ToReconcile)

\* A pull has reported after lowering one unit and raising another.
C5_Witness ==
    /\ Reported200
    /\ direction = "pull"
    /\ \E k \in ToReconcile :
           Resolved(listings[k]).mlStock <
               listings[k].product_variant.stock_quantity
    /\ \E k \in ToReconcile :
           Resolved(listings[k]).mlStock >
               listings[k].product_variant.stock_quantity

\* The links a push has to write: local quantity # stock_synced.
ToPush ==
    {k \in Links : listings[k].product_variant.stock_quantity #
                       listings[k].stock_synced}

\* The quantity the marketplace holds at the coordinate a push addresses.
RemoteAt(l) ==
    LET item == remote[l.external_id]
    IN  IF l.external_variant_id = NoStr THEN item.available_quantity
        ELSE item.variations[CHOOSE k \in 1..Len(item.variations) :
                 StringOf(item.variations[k].id) = l.external_variant_id
             ].available_quantity

PushWriteKind(l) ==
    IF l.external_variant_id # NoStr THEN "remote_variation" ELSE "remote_item"

PushedOk(k) ==
    LET l == listings[k]
        L == l.product_variant.stock_quantity
    IN  /\ Write(PushWriteKind(l), l, L) \in writes
        /\ ~Wrote(l, {"remote_item", "remote_variation"} \ {PushWriteKind(l)})

\* C6, the states of a push: for a link with local quantity L # stock_synced
\* whose remote write did not throw, the push has written L to the variation
\* endpoint when external_variant_id is set and to the item endpoint otherwise,
\* and only then has set stock_synced to L and refreshed last_sync_at; no
\* stock_quantity differs from the loaded one and no stock_movements row has
\* been inserted.
C6_PushStates ==
    (pc # "idle" /\ direction = "push") =>
        /\ \A k \in ToPush :
               LET l == listings[k]
                   L == l.product_variant.stock_quantity
                   threw == \E j \in 1..Len(errors) : errors[j].listing = l.id
               IN  /\ (k < idx /\ ~threw) =>
                          /\ PushedOk(k)
                          /\ RowOf(l.id).stock_synced = L
                          /\ RowOf(l.id).last_sync_at = "now"
                   /\ (k = idx /\ pc = "pushListing") =>
                          /\ PushedOk(k)
                          /\ RemoteAt(l) = L
                          /\ RowOf(l.id).stock_synced = l.stock_synced
                          /\ RowOf(l.id).last_sync_at = "before"
        /\ \A k \in Links :
               product_variants[listings[k].product_variant.id].stock_quantity
                   = listings[k].product_variant.stock_quantity
        /\ Len(stock_movements) = movementsBefore

\* C6: push direction correctness and frame. The states of a push are as
\* C6_PushStates says, and no step of a push changes product_variants or
\* stock_movements.
C6_PushCorrectAndFrame ==
    /\ []C6_PushStates
    /\ [][(pc # "idle" /\ direction = "push") =>
              UNCHANGED <<product_variants, stock_movements>>]_vars

\* A push has reported after writing one link at its variation and another at
\* its item.
C6_Witness ==
    /\ Reported200
    /\ direction = "push"
    /\ response.synced = 2
    /\ \E k \in ToPush : listings[k].external_variant_id # NoStr
    /\ \E k \in ToPush : listings[k].external_variant_id = NoStr

\* The variation the SKU designates: the first with seller_custom_field equal
\* to the SKU, else the first whose id the SKU contains (0: none).
Designated(sku, vs) ==
    LET exact == {k \in 1..Len(vs) : sku # NoStr /\ vs[k].seller_custom_field = sku}
        within == {k \in 1..Len(vs) : sku # NoStr /\ Includes(sku, StringOf(vs[k].id))}
        Least(S) == CHOOSE k \in S : \A j \in S : k <= j
    IN  IF exact # {} THEN Least(exact)
        ELSE IF within # {} THEN Least(within) ELSE 0

\* The links a pull can recover: no variation id, a variation designated.
Recoverable ==
    {k \in Links :
        /\ listings[k].external_variant_id = NoStr
        /\ listings[k].external_id \in Items
        /\ Designated(listings[k].product_variant.sku,
                      remote[listings[k].external_id].variations) # 0}

\* C7, after one pull: every link without a variation id whose SKU designates
\* a remote variation carries that variation's id.
C7_HealedAfterPull ==
    (Reported200 /\ direction = "pull") =>
        \A k \in Recoverable :
            LET l == listings[k]
                vs == remote[l.external_id].variations
            IN  RowOf(l.id).external_variant_id =
                    StringOf(vs[Designated(l.product_variant.sku, vs)].id)

\* C7, later runs: a pull resolves a link that has a variation id by that id,
\* without another recovery.
C7_ResolvedById ==
    (pc # "idle" /\ direction = "pull") =>
        \A k \in Links :
            LET l == listings[k]
            IN  l.external_variant_id # NoStr =>
                    /\ ~Wrote(l, {"heal"})
                    /\ RowOf(l.id).external_variant_id = l.external_variant_id
                    /\ (/\ k = idx
                        /\ pc = "compare"
                        /\ HasVariation(remote[l.external_id],
                                        l.external_variant_id))
                           => mlStock = RemoteAt(l)

\* C7: self-healing persists. After one pull a recoverable link carries the
\* id of the variation its SKU designates; no step of any later run, push or
\* pull, clears or changes an external_variant_id that is set; later pulls
\* resolve the link by that id.
C7_SelfHealingPersists ==
    /\ []C7_HealedAfterPull
    /\ []C7_ResolvedById
    /\ [][\A k \in 1..Len(platform_listings) :
              platform_listings[k].external_variant_id # NoStr =>
                  /\ Len(platform_listings') = Len(platform_listings)
                  /\ platform_listings'[k].id = platform_listings[k].id
                  /\ platform_listings'[k].external_variant_id =
                         platform_listings[k].external_variant_id]_vars

\* A pull runs on a link that an earlier pull recovered, after the SKU that
\* designated the variation is gone.
C7_Witness ==
    /\ pc = "compare"
    /\ Listing.external_variant_id = StringOf(2)
    /\ Listing.product_variant.sku = QQ
    /\ mlStock = MaxQty

\* The request counts the links it has updated.
CountedLinks == {w.listing : w \in {x \in writes : x.kind = "listing"}}

\* The unit's quantity equals stock_synced, and (pull) the resolved remote
\* quantity equals it too.
Matches(l) ==
    /\ l.product_variant.stock_quantity = l.stock_synced
    /\ direction = "pull" =>
           /\ Resolved(l).outcome = "stock"
           /\ Resolved(l).mlStock = l.stock_synced

\* C8 as stated: for a unit whose stock_quantity equals stock_synced and whose
\* remote quantity equals that value, a run issues no store write and no
\* remote write for the unit, and does not count it.
C8_NoWriteAtAll ==
    pc # "idle" =>
        \A k \in Links :
            Matches(listings[k]) =>
                ~Wrote(listings[k], QuantityWrites \cup {"heal"})

\* C8: NoOp on match. For a unit whose stock_quantity equals stock_synced and
\* whose remote quantity equals that value, a run in either direction writes
\* no quantity (no product_variants update, no stock_movements insert, no
\* update of stock_synced or last_sync_at, no remote write) and does not count
\* the unit; the one store write it may issue is the update of
\* external_variant_id by which a pull records a recovered variation, and a
\* push issues none.
C8_NoOpOnMatch ==
    pc # "idle" =>
        /\ synced = Cardinality(CountedLinks)
        /\ \A k \in Links :
               LET l == listings[k]
                   v == l.product_variant.id
               IN  Matches(l) =>
                       /\ ~Wrote(l, QuantityWrites)
                       /\ l.id \notin CountedLinks
                       /\ product_variants[v].stock_quantity =
                              l.product_variant.stock_quantity
                       /\ InsertedFor(v) = {}
                       /\ RowOf(l.id).stock_synced = l.stock_synced
                       /\ RowOf(l.id).last_sync_at = "before"
                       /\ Wrote(l, {"heal"}) =>
                              /\ direction = "pull"
                              /\ l.external_variant_id = NoStr
                              /\ RowOf(l.id).external_variant_id # NoStr

\* A pull has reported on a matching unit whose variation it recovered.
C8_Witness ==
    /\ Reported200
    /\ direction = "pull"
    /\ \E k \in Links : Matches(listings[k]) /\ Wrote(listings[k], {"heal"})

\* The running request follows a reported run in the same direction, with no
\* change to a stock_quantity or on the marketplace in between.
SecondRun ==
    /\ pc # "idle"
    /\ prevRun.run.outcome # "none"
    /\ prevRun.run.direction = direction

\* C1 as stated: a run that follows a run in the same direction, with no
\* change in between to a stock_quantity, a remote available_quantity or a
\* remote variation set, counts nothing and writes no quantity.
C1_SecondRunIdle ==
    SecondRun =>
        /\ synced = 0
        /\ \A w \in writes : w.kind \notin QuantityWrites

\* C1: idempotence of the bulk sync. A run that follows a run in the same
\* direction none of whose remote calls failed, with no change in between to
\* a stock_quantity, a SKU, a remote available_quantity, a remote variation
\* set or a remote item, counts nothing, writes no quantity and changes
\* no link.
C1_Idempotent ==
    (SecondRun /\ prevRun.run.outcome = "clean" /\ prevRun.changed = {}) =>
        /\ synced = 0
        /\ writes = {}
        /\ Reported200 => response.synced = 0

\* A run has reported after a run in the same direction that reconciled
\* units, with nothing changed in between.
C1_Witness ==
    /\ Reported200
    /\ SecondRun
    /\ prevRun.run.outcome = "clean"
    /\ prevRun.run.reconciled
    /\ prevRun.changed = {}

\* The sum of the signed deltas of the ledger rows of a unit.
RECURSIVE SumDeltas(_, _)
SumDeltas(rows, v) ==
    IF rows = <<>> THEN 0
    ELSE (IF Head(rows).product_variant_id = v THEN SignedDelta(Head(rows)) ELSE 0)
         + SumDeltas(Tail(rows), v)

\* C2: ledger consistency. Whenever no operation is under way, for every unit
\* the initial quantity plus the sum of the signed deltas of its
\* stock_movements rows equals its stock_quantity.
C2_LedgerConsistent ==
    pc = "idle" =>
        \A v \in Variants :
            initial_quantity(v) + SumDeltas(stock_movements, v) =
                product_variants[v].stock_quantity

\* C4: an unresolvable identity never causes a stock write. For a link that
\* is ambiguous or stale, no run, push or pull, writes the unit's
\* stock_quantity or a remote available_quantity, item-level or
\* variation-level.
C4_NoWriteOnUnresolvable ==
    pc # "idle" =>
        \A k \in Links :
            (Ambiguous(listings[k]) \/ Stale(listings[k])) =>
                ~Wrote(listings[k], {"variant", "remote_item", "remote_variation"})

\* C9: partial-failure isolation. A run that loaded the links returns a
\* report whatever remote call fails, with one error for each unit whose
\* remote call failed and the other units processed.
C9_PartialFailureIsolation ==
    (pc = "done" /\ Len(listings) > 0) =>
        /\ response.status = 200
        /\ response.total = Len(listings)
        /\ \A k \in Links :
               Cardinality({j \in 1..Len(response.errors) :
                               response.errors[j].listing = listings[k].id}) <= 1

\* The run left the link alone because its quantities match.
NoOp(l) ==
    IF direction = "push"
    THEN l.product_variant.stock_quantity = l.stock_synced
    ELSE /\ Resolved(l).outcome = "stock"
         /\ Resolved(l).mlStock = l.product_variant.stock_quantity

\* C10: no unit is silently dropped. In a report, every loaded link that was
\* neither reconciled nor left alone because its quantities match has an
\* entry in the error list.
C10_NoSilentDrop ==
    Reported200 =>
        \A k \in Links :
            LET l == listings[k]
            IN  (l.id \notin CountedLinks /\ ~NoOp(l)) =>
                    \E j \in 1..Len(response.errors) :
                        response.errors[j].listing = l.id

\* The link has a variation id and the marketplace returned its item.
ById(l) ==
    /\ l.external_variant_id # NoStr
    /\ l.external_id \in Items
    /\ remote[l.external_id].exists

\* C11: resolution by stored variation id in pull. For a link whose
\* external_variant_id is set, the quantity a pull uses is (a) that of the
\* remote variation with that id when it is present, (b) the item-level
\* quantity when the id is not found and the item has no variations; (c) when
\* the id is not found and the item still has variations the unit is skipped:
\* no write is issued for it and its stock_quantity stays as loaded.
C11_ResolutionById ==
    (pc # "idle" /\ direction = "pull") =>
        \A k \in Links :
            LET l == listings[k]
                v == l.product_variant.id
                item == remote[l.external_id]
                found == HasVariation(item, l.external_variant_id)
                used == IF found THEN RemoteAt(l) ELSE item.available_quantity
                reached == k < idx \/ Reported200
            IN  ById(l) =>
                    /\ (found \/ Len(item.variations) = 0) =>
                           /\ (k = idx /\ pc \in {"compare", "movement", "listing"})
                                  => mlStock = used
                           /\ reached =>
                                  product_variants[v].stock_quantity = used
                    /\ Stale(l) =>
                           /\ ~(k = idx /\ pc \in {"compare", "movement", "listing"})
                           /\ ~Wrote(l, QuantityWrites \cup {"heal"})
                           /\ product_variants[v].stock_quantity =
                                  l.product_variant.stock_quantity
                           /\ RowOf(l.id).stock_synced = l.stock_synced

\* A pull has reported after it skipped a link whose variation id is gone
\* from an item whose other variation holds another quantity than the unit.
C11_Witness ==
    /\ Reported200
    /\ direction = "pull"
    /\ \E k \in Links :
           /\ Stale(listings[k])
           /\ listings[k].product_variant.stock_quantity
                  # remote[listings[k].external_id].variations[1].available_quantity
           /\ listings[k].product_variant.stock_quantity # 0

\* The step appended a stock_movements row of the unit.
Appended(v) ==
    /\ Len(stock_movements') = Len(stock_movements) + 1
    /\ stock_movements'[Len(stock_movements')].product_variant_id = v

\* C12, a pull that has answered: for every loaded link, the unit's
\* stock_quantity differs from the loaded one exactly when the run inserted a
\* stock_movements row of the unit.
C12_PullPaired ==
    (pc = "done" /\ direction = "pull") =>
        \A k \in Links :
            LET v == listings[k].product_variant.id
            IN  (product_variants[v].stock_quantity #
                     listings[k].product_variant.stock_quantity)
                <=> InsertedFor(v) # {}

\* C12: the quantity write and the ledger write are one transaction. After a
\* pull, and across a webhook decrement or a manual stock update, whatever
\* single store write fails, a unit's stock_quantity has changed exactly when
\* a stock_movements row of the unit was inserted for it.
C12_QuantityAndLedgerTogether ==
    /\ []C12_PullPaired
    /\ [][(pc = "idle" /\ pc' = "idle") =>
              \A v \in Variants :
                  (product_variants'[v].stock_quantity #
                       product_variants[v].stock_quantity) <=> Appended(v)]_vars

\* The links of a push whose remote write was applied and whose link update
\* was not.
HalfPushed ==
    {k \in ToPush : /\ Wrote(listings[k], {"remote_item", "remote_variation"})
                    /\ ~Wrote(listings[k], {"listing"})
                    /\ (k < idx \/ pc = "done")}

\* C13, the failed run: in a push, a link whose remote write succeeded and
\* whose link update failed keeps its old stock_synced, so that it mismatches
\* again in the next push, and the run that failed does not count it: its
\* report counts the links whose update was applied.
C13_FailedRunNotCounted ==
    (pc # "idle" /\ direction = "push") =>
        /\ \A k \in HalfPushed :
               /\ RowOf(listings[k].id).stock_synced = listings[k].stock_synced
               /\ RowOf(listings[k].id).stock_synced #
                      product_variants[listings[k].product_variant.id].stock_quantity
        /\ Reported200 =>
               response.synced =
                   Cardinality({k \in ToPush : Wrote(listings[k], {"listing"})})

\* C14: quantities crossing the marketplace boundary are non-negative. Every
\* available_quantity a push has written to the marketplace, item-level or
\* variation-level, is >= 0, whatever sales, webhook decrements, manual stock
\* updates and syncs came before.
C14_RemoteQuantitiesNonNegative ==
    /\ \A w \in writes :
           w.kind \in {"remote_item", "remote_variation"} => w.qty >= 0
    /\ \A i \in Items :
           /\ remote[i].available_quantity >= 0
           /\ \A k \in 1..Len(remote[i].variations) :
                  remote[i].variations[k].available_quantity >= 0

(***************************************************************************)
(* C15: at most one link per unit and platform. After any sequence of      *)
(* single-link POSTs, product imports and sync runs (and deletions), no    *)
(* two rows of platform_listings have the same product_variant_id and the  *)
(* same platform.                                                          *)
(***************************************************************************)
C15_OneLinkPerUnit ==
    \A j, k \in 1..Len(platform_listings) :
        (/\ platform_listings[j].product_variant_id =
                platform_listings[k].product_variant_id
         /\ platform_listings[j].platform = platform_listings[k].platform)
        => j = k

\* A POST has re-linked a unit that already had a link (the first unit now
\* points at MLA2), an import has added links, and a push run is at a row.
C15_Witness ==
    /\ \E k \in 1..Len(platform_listings) :
           /\ platform_listings[k].product_variant_id = "v1"
           /\ platform_listings[k].external_id = "MLA2"
    /\ Len(platform_listings) > 2
    /\ pc = "pushListing"

\* C16, a pull: each link the run is done with has one stock_movements row
\* of its unit inserted by the run when the run wrote the unit's
\* stock_quantity, and none when it did not.
C16_PullOncePerWrite ==
    (pc # "idle" /\ direction = "pull") =>
        \A k \in Links :
            (k < idx \/ pc = "done") =>
                Cardinality(InsertedFor(listings[k].product_variant.id)) =
                    (IF Wrote(listings[k], {"variant"}) THEN 1 ELSE 0)

\* C16: stock movements are created exactly once per quantity mutation and
\* are immutable. A pull inserts one row per quantity it writes; a request
\* handled in one step changes the stock_quantity of a unit exactly when it
\* appends one row of that unit; and every row that is in stock_movements
\* stays there unchanged, so the ledger only grows.
C16_OncePerMutationAndImmutable ==
    /\ []C16_PullOncePerWrite
    /\ [][(pc = "idle" /\ pc' = "idle") =>
              \A v \in DOMAIN product_variants \cap DOMAIN product_variants' :
                  (product_variants'[v].stock_quantity #
                       product_variants[v].stock_quantity)
                  => /\ Appended(v)
                     /\ SubSeq(stock_movements', 1, Len(stock_movements)) =
                            stock_movements]_vars
    /\ [][/\ Len(stock_movements') >= Len(stock_movements)
          /\ SubSeq(stock_movements', 1, Len(stock_movements)) =
                 stock_movements]_vars

\* The units for which the run applied a quantity write: the unit's
\* stock_quantity in a pull, the remote quantity in a push.
UnitsWritten ==
    {listings[k].product_variant.id :
        k \in {j \in Links :
                  Wrote(listings[j],
                        {"variant", "remote_item", "remote_variation"})}}

\* C17: report counts. The report of a completed run has total equal to the
\* number of links loaded for the platform, skipped and failed ones
\* included, and synced equal to the number of units for which the run
\* applied a quantity write; a unit whose processing raised an error is not
\* among them.
C17_ReportCounts ==
    Reported200 =>
        /\ response.total = Len(listings)
        /\ response.total =
               Cardinality({k \in 1..Len(platform_listings) :
                               platform_listings[k].platform = "mercadolibre"})
        /\ response.synced = Cardinality(UnitsWritten)
        /\ \A j \in 1..Len(response.errors) :
               \A k \in Links :
                   listings[k].id = response.errors[j].listing =>
                       /\ listings[k].product_variant.id \notin UnitsWritten
                       /\ listings[k].id \notin CountedLinks

\* The ids of the links that reference the unit.
LinksOf(v) ==
    {platform_listings[k].id :
        k \in {j \in 1..Len(platform_listings) :
                  platform_listings[j].product_variant_id = v}}

\* C18, the state part: every platform_listings row references a unit that
\* exists.
C18_LinksReferenceUnits ==
    \A k \in 1..Len(platform_listings) :
        platform_listings[k].product_variant_id \in DOMAIN product_variants

\* C18: a unit is never deleted while a link references it. Every link
\* references an existing unit; no step removes a unit that a link
\* references, and the unit's links stay in place (the delete is rejected);
\* and no step of a sync run removes a link.
C18_NoDeleteWhileLinked ==
    /\ []C18_LinksReferenceUnits
    /\ [][\A v \in DOMAIN product_variants :
              LinksOf(v) # {} =>
                  /\ v \in DOMAIN product_variants'
                  /\ \A id \in LinksOf(v) :
                         \E k \in 1..Len(platform_listings') :
                             /\ platform_listings'[k].id = id
                             /\ platform_listings'[k].product_variant_id = v]_vars
    /\ [][pc # "idle" =>
              \A k \in 1..Len(platform_listings) :
                  \E j \in 1..Len(platform_listings') :
                      platform_listings'[j].id = platform_listings[k].id]_vars

\* The positions of the variations whose seller_custom_field is the SKU, and
\* of those whose id is a substring of the SKU.
ExactMatches(sku, vs) ==
    {k \in 1..Len(vs) : sku # NoStr /\ vs[k].seller_custom_field = sku}

SubstringMatches(sku, vs) ==
    {k \in 1..Len(vs) : sku # NoStr /\ Includes(sku, StringOf(vs[k].id))}

First(S) == CHOOSE k \in S : \A j \in S : k <= j

\* The links of a pull whose variation id is unset and whose fetched item
\* has variations, once the run has resolved them.
ToRecover ==
    {k \in Links :
        /\ ~Malformed(listings[k])
        /\ listings[k].external_variant_id = NoStr
        /\ ~Absent(mlItemMap, listings[k].external_id)
        /\ Len(mlItemMap[listings[k].external_id].variations) > 0
        /\ \/ k < idx
           \/ k = idx /\ pc \in {"compare", "movement", "listing"}
           \/ pc = "done"}

\* C19: ordered identity recovery. For a link without a variation id whose
\* item has variations, a pull chooses the first variation whose
\* seller_custom_field equals the SKU whenever there is one, whatever
\* variations substring-match and wherever they stand; failing that, the
\* first variation whose id is a substring of the SKU; and none when neither
\* strategy matches: the link keeps no variation id and the run writes
\* nothing for it.
C19_OrderedRecovery ==
    (pc # "idle" /\ direction = "pull") =>
        \A k \in ToRecover :
            LET l == listings[k]
                sku == l.product_variant.sku
                vs == mlItemMap[l.external_id].variations
                exact == ExactMatches(sku, vs)
                within == SubstringMatches(sku, vs)
                Chosen(m) ==
                    /\ RowOf(l.id).external_variant_id = StringOf(vs[m].id)
                    /\ (k = idx /\ pc = "compare") =>
                           mlStock = vs[m].available_quantity
                    /\ (k < idx \/ pc = "done") =>
                           product_variants[l.product_variant.id].stock_quantity
                               = vs[m].available_quantity
            IN  /\ exact # {} => Chosen(First(exact))
                /\ (exact = {} /\ within # {}) => Chosen(First(within))
                /\ (exact = {} /\ within = {}) =>
                       /\ RowOf(l.id).external_variant_id = NoStr
                       /\ ~Wrote(l, QuantityWrites \cup {"heal"})
                       /\ ~(k = idx /\ pc \in {"compare", "movement", "listing"})

\* A pull has recovered, by the exact match, the second variation of the
\* item for a unit whose SKU also contains the id of the first one.
C19_Witness ==
    /\ pc = "done"
    /\ direction = "pull"
    /\ \E k \in ToRecover :
           LET l == listings[k]
               vs == mlItemMap[l.external_id].variations
           IN  /\ ExactMatches(l.product_variant.sku, vs) = {2}
               /\ 1 \in SubstringMatches(l.product_variant.sku, vs)
               /\ RowOf(l.id).external_variant_id = StringOf(vs[2].id)
               /\ Wrote(l, {"heal"})

\* No request is under way.
Quiescent ==
    /\ pc = "idle"
    /\ \A p \in Procs : requests[p].pc \in {"idle", "done"}

\* C20: same-unit operations are serialized, no update is lost. However the
\* store calls of two decrements, or of a decrement and a pull, interleave,
\* once they have all returned the stock_quantity of every unit is its
\* initial quantity plus the signed deltas of its stock_movements rows; in
\* particular two decrements of q1 and q2 of a unit that nothing else has
\* written leave it at its initial quantity minus q1 minus q2.
C20_NoLostUpdate ==
    Quiescent =>
        /\ \A v \in Variants :
               initial_quantity(v) + SumDeltas(stock_movements, v) =
                   product_variants[v].stock_quantity
        /\ \A v \in Variants :
               (/\ \A p \in Procs : /\ requests[p].pc = "done"
                                    /\ requests[p].variant = v
                /\ Len(stock_movements) = Cardinality(Procs))
               => product_variants[v].stock_quantity =
                      initial_quantity(v) - requests["a"].quantity
                                          - requests["b"].quantity

\* C21, the states of a pull: no item id is asked for twice; nothing is
\* asked, resolved or written before the batch; after it the ids asked for
\* are those of the loaded links.
C21_FetchStates ==
    (pc # "idle" /\ direction = "pull") =>
        /\ \A j, k \in 1..Len(fetches) : fetches[j] = fetches[k] => j = k
        /\ pc = "fetch" =>
               /\ fetches = <<>>
               /\ writes = {}
               /\ errors = <<>>
               /\ idx = 1
        /\ pc \in {"pull", "compare", "movement", "listing"} =>
               {fetches[k] : k \in 1..Len(fetches)} =
                   {listings[k].external_id : k \in Links}

\* C21: batched remote fetch ordering in pull. Within one pull every
\* distinct item id of the loaded links is fetched at most once, all fetches
\* happen before the first resolution or store write, and no step of the
\* per-unit loop fetches: the only step that asks the marketplace for items
\* is the batch that precedes the loop.
C21_BatchedFetchBeforeLoop ==
    /\ []C21_FetchStates
    /\ [][(fetches' # fetches /\ pc' # "idle") =>
              /\ pc = "fetch"
              /\ writes = {}
              /\ idx = 1]_vars
    /\ [][(writes' # writes \/ idx' # idx \/ errors' # errors) =>
              (fetches' = fetches \/ pc' = "idle")]_vars

\* A pull is inside its loop, at the link update of a row, with two links
\* to one item and that item asked for once.
C21_Witness ==
    /\ pc = "listing"
    /\ direction = "pull"
    /\ Len(listings) = 2
    /\ listings[1].external_id = listings[2].external_id
    /\ fetches = <<listings[1].external_id>>

\* C22: after a pull that completes with no errors, every resolved unit has
\* the link's stock_synced equal to its stock_quantity and to the resolved
\* remote quantity, whatever the three values were before the run, also
\* when stock_quantity already equalled the remote quantity and stock_synced
\* was stale.
C22_SyncedAfterCleanPull ==
    (Reported200 /\ direction = "pull" /\ response.errors = <<>>) =>
        \A k \in Links :
            LET l == listings[k]
            IN  (~Malformed(l) /\ Resolved(l).outcome = "stock") =>
                    /\ RowOf(l.id).stock_synced =
                           product_variants[l.product_variant.id].stock_quantity
                    /\ RowOf(l.id).stock_synced = Resolved(l).mlStock

\* C23: self-healing is injective per remote item. After any sequence of
\* pull runs no two links with the same external_id carry the same
\* external_variant_id: two units are never resolved to the same remote
\* variation.
C23_HealingInjective ==
    \A j, k \in 1..Len(platform_listings) :
        (/\ platform_listings[j].external_id = platform_listings[k].external_id
         /\ platform_listings[j].external_variant_id # NoStr
         /\ platform_listings[j].external_variant_id =
                platform_listings[k].external_variant_id)
        => j = k

\* The notifications that have written the decrement of the order's item,
\* and the sales rows of the order.
Decremented(o) ==
    {p \in Procs : requests[p].order = o /\ requests[p].pc \in {"insert", "done"}}

SalesOf(o) == {k \in 1..Len(sales) : sales[k].ml_order_id = o}

SaleMovements ==
    {j \in 1..Len(stock_movements) : stock_movements[j].reference_type = "sale"}

\* C24: the webhook's order import is idempotent under duplicate delivery.
\* For notifications of the same paid order, one after the other or
\* interleaved, at most one sales row with that ml_order_id exists, the
\* quantity of the order's item is decremented by at most one of them, and
\* there are no more 'sale' stock movements than orders with a sale.
C24_WebhookIdempotent ==
    /\ \A o \in Orders :
           /\ Cardinality(SalesOf(o)) <= 1
           /\ Cardinality(Decremented(o)) <= 1
    /\ Cardinality(SaleMovements) <=
           Cardinality({o \in Orders : SalesOf(o) # {}})

\* Two notifications of one order were interleaved: both passed the check
\* for an existing sale; one has inserted the sale and decremented, the
\* insert of the other was refused.
C24_Witness ==
    /\ requests["a"].order = requests["b"].order
    /\ requests["a"].pc = "done"
    /\ requests["b"].pc = "refused"
    /\ Cardinality(SaleMovements) = 1

\* C25: the webhook's decrement is attributed to the sold variation only.
\* When the order item carries a variation_id, the unit a notification
\* decrements is one whose link has that external_variant_id on that same
\* item; never a unit linked to another variation of the item, to no
\* variation, or to another item.
C25_DecrementSoldVariationOnly ==
    \A p \in Procs :
        LET item == MLOrder(requests[p].order)
        IN  (/\ requests[p].handler = "webhook"
             /\ requests[p].pc \in {"read", "update", "insert", "done"}
             /\ item.variation_id # 0)
            => \E k \in 1..Len(platform_listings) :
                   /\ platform_listings[k].product_variant_id = requests[p].variant
                   /\ platform_listings[k].external_id = item.item
                   /\ platform_listings[k].external_variant_id =
                          StringOf(item.variation_id)

\* No notification is being handled.
OrdersQuiet ==
    /\ pc = "idle"
    /\ \A p \in Procs :
           requests[p].pc \in {"idle", "skipped", "refused", "unlinked", "done"}

\* C26: every imported order decrements stock exactly once. Whenever no
\* request is under way, for each sale with an ml_order_id whose item maps
\* to a linked unit, exactly one request has decremented that unit by the
\* ordered quantity and inserted its 'sale' stock movement, whether the
\* order came in through the bulk sync or through the webhook.
C26_ImportedOrderDecrementsOnce ==
    OrdersQuiet =>
        \A o \in Orders :
            (SalesOf(o) # {} /\ DecrementTarget(MLOrder(o)) # NoId) =>
                /\ Cardinality({p \in Procs : /\ requests[p].order = o
                                              /\ requests[p].pc = "done"}) = 1
                /\ \E j \in SaleMovements :
                       /\ stock_movements[j].product_variant_id =
                              DecrementTarget(MLOrder(o))
                       /\ stock_movements[j].quantity =
                              0 - MLOrder(o).quantity

\* What a step leaves of a link: everything but external_variant_id,
\* stock_synced and last_sync_at.
LinkIdentity(row) ==
    [id |-> row.id, product_variant_id |-> row.product_variant_id,
     platform |-> row.platform, external_id |-> row.external_id]

\* C27: pull never writes to the marketplace. No step of a pull run changes
\* a remote available_quantity, item-level or variation-level, or anything
\* else of the marketplace, and the run records no remote write; what its
\* steps change in the store is stock_quantity in product_variants, rows
\* appended to stock_movements, and external_variant_id, stock_synced and
\* last_sync_at in platform_listings.
C27_PullWritesNoRemote ==
    /\ []((pc # "idle" /\ direction = "pull") =>
              \A w \in writes :
                  w.kind \notin {"remote_item", "remote_variation"})
    /\ [][(pc # "idle" /\ direction = "pull") =>
              /\ remote' = remote
              /\ DOMAIN product_variants' = DOMAIN product_variants
              /\ \A v \in DOMAIN product_variants :
                     product_variants'[v].sku = product_variants[v].sku
              /\ Len(stock_movements') >= Len(stock_movements)
              /\ SubSeq(stock_movements', 1, Len(stock_movements)) =
                     stock_movements
              /\ Len(platform_listings') = Len(platform_listings)
              /\ \A k \in 1..Len(platform_listings) :
                     LinkIdentity(platform_listings'[k]) =
                         LinkIdentity(platform_listings[k])
              /\ sales' = sales]_vars

\* A pull has answered after it recorded a recovered variation id, wrote the
\* unit's quantity, inserted the movement and updated the link.
C27_Witness ==
    /\ Reported200
    /\ direction = "pull"
    /\ response.synced > 0
    /\ \E k \in Links :
           /\ Wrote(listings[k], {"variant"})
           /\ Wrote(listings[k], {"movement"})
           /\ Wrote(listings[k], {"listing"})
           /\ Wrote(listings[k], {"heal"})

\* The link of the unit that a successful POST promises: it points at the
\* item, its stock_synced is the unit's stock_quantity, which is the
\* quantity the marketplace now has, and when a variation id was supplied
\* the link records it and the quantity went to that variation.
Committed(variant_id, ml_item_id, ml_variation_id) ==
    LET stock == product_variants[variant_id].stock_quantity
    IN  /\ \E k \in 1..Len(platform_listings) :
               /\ platform_listings[k].product_variant_id = variant_id
               /\ platform_listings[k].platform = "mercadolibre"
               /\ platform_listings[k].external_id = ml_item_id
               /\ platform_listings[k].stock_synced = stock
               /\ ml_variation_id # NoStr =>
                      platform_listings[k].external_variant_id =
                          ml_variation_id
        /\ IF ml_variation_id = NoStr
           THEN remote[ml_item_id].available_quantity = stock
           ELSE \E j \in 1..Len(remote[ml_item_id].variations) :
                    /\ StringOf(remote[ml_item_id].variations[j].id) =
                           ml_variation_id
                    /\ remote[ml_item_id].variations[j].available_quantity =
                           stock

\* C28: the single-link POST reports success only for a committed link.
\* Every request that answers success: true for (variant_id, ml_item_id,
\* ml_variation_id) leaves a link of that unit with external_id =
\* ml_item_id and stock_synced equal to the unit's stock_quantity that was
\* written to the remote, and, when a variation id was supplied, the link
\* records it and the remote write went to that variation.
C28_SuccessMeansCommitted ==
    [][\A v \in AllVariants, i \in Items, ml_variation_id \in VariationIds,
          unique \in BOOLEAN :
           POST(v, i, ml_variation_id, unique) =>
               Committed(v, i, ml_variation_id)']_vars

\* The handler eventually returns a response to a request it received.
C29_Returns == (pc # "idle") ~> (pc = "done")

\* When the handler returns, the loop has passed every loaded link.
C29_VisitedAll == pc = "done" => idx = Len(listings) + 1

\* How a step that leaves a link ends it.
Reconciled == synced' = synced + 1 /\ errors' = errors

Errored ==
    /\ synced' = synced
    /\ \E kind \in {"error", "manual"} :
           errors' = Append(errors, ErrorEntry(Listing, kind))

NoOpOrSkipped == synced' = synced /\ errors' = errors

\* A step of a run goes to the next link or stays on the one it is on; the
\* loaded links are fixed; synced and the error list change only in the
\* step that leaves a link, and then at most one of them does.
C29_OncePerLink ==
    [][pc \notin {"idle", "done"} =>
           /\ listings' = listings
           /\ idx' \in {idx, idx + 1}
           /\ idx' = idx => synced' = synced /\ errors' = errors
           /\ idx' = idx + 1 =>
                  /\ idx <= Len(listings)
                  /\ Reconciled \/ Errored \/ NoOpOrSkipped]_vars

\* C29: a sync run terminates and handles each loaded link exactly once.
\* Whatever the outcome of each remote and store call, the handler
\* eventually returns a response; during the run each loaded link is
\* visited once and ends as reconciled (counted in synced), as a
\* quantities-match NoOp, as skipped, or as an error, and no link counts
\* both in synced and in the error list.
C29_TerminatesEachLinkOnce ==
    /\ C29_Returns
    /\ []C29_VisitedAll
    /\ C29_OncePerLink

\* The unit the import created from variation k of item i is in the store
\* and the variation is on the marketplace.
ImportedFrom(i, k) ==
    /\ k \in 1..Len(remote[i].variations)
    /\ ImportedVariants(i)[k] \in DOMAIN product_variants
    /\ ProductOf(ImportedVariants(i)[k]) = i

\* The loaded link of that unit, when the running pull loaded it without a
\* variation id and the variation is as it was at the import: it gives the
\* unit's sku and has the unit's quantity.
LoadedUnresolved(i, k) ==
    {j \in 1..Len(listings) :
        /\ listings[j].product_variant.present
        /\ listings[j].product_variant.id = ImportedVariants(i)[k]
        /\ listings[j].external_id = i
        /\ listings[j].external_variant_id = NoStr
        /\ listings[j].product_variant.sku =
               VariantSku(i, remote[i].variations[k])
        /\ listings[j].product_variant.stock_quantity =
               remote[i].variations[k].available_quantity}

\* C30: import followed by pull round-trips identity. After the import of
\* an item with variations, the first pull with the item unchanged on the
\* marketplace resolves the link of every imported unit to the variation
\* the unit was created from, records no 'manual linking required' error
\* for it, and changes no stock_quantity of the unit.
C30_ImportPullRoundTrip ==
    Reported200 /\ direction = "pull" =>
        \A i \in Items : \A k \in 1..2 :
            ImportedFrom(i, k) =>
                \A j \in LoadedUnresolved(i, k) :
                    /\ \E n \in 1..Len(platform_listings) :
                           /\ platform_listings[n].id = listings[j].id
                           /\ platform_listings[n].external_variant_id =
                                  StringOf(remote[i].variations[k].id)
                    /\ \A e \in 1..Len(errors) :
                           errors[e].listing # listings[j].id
                    /\ Write("variant", listings[j],
                             product_variants[ImportedVariants(i)[k]]
                                 .stock_quantity) \notin writes
                    /\ product_variants[ImportedVariants(i)[k]].stock_quantity =
                           listings[j].product_variant.stock_quantity

====
